---------------------------- MODULE Spec2Model ----------------------------
(***************************************************************************)
(* Model of the product import endpoint of the backend,                    *)
(* POST /api/products/import/excel (backend/src/routes/products.js), of    *)
(* the Product schema it inserts into, of the other product routes, of the *)
(* stock and margin helpers of the frontend pages and of the frontend      *)
(* router with the session it reads.                                       *)
(*                                                                         *)
(* Spec is one import request; SpecApi is a client sending requests to the *)
(* product routes one after the other; SpecMetrics applies the helpers to  *)
(* inputs; SpecRoutes is a browser session.  Each specification keeps the  *)
(* variables of the others at their idle values.                           *)
(*                                                                         *)
(* Money amounts are fixed-point integers counted in hundredths, so that   *)
(* "15.00" parses to 1500 and "29.9" to 2990.  Quantities are plain        *)
(* integers.  A string held by a numeric column is a sequence of           *)
(* one-character strings, which lets parseFloat and parseInt be computed   *)
(* the way JavaScript computes them.                                       *)
(***************************************************************************)
EXTENDS Integers, Sequences, FiniteSets, TLC

(***************************************************************************)
(* Bounds of the model.                                                    *)
(***************************************************************************)
\* largest number of worksheet rows (header included) of a multi-row upload
MaxRows == 4

(***************************************************************************)
(* Cell values.  A text cell is null or a string; a numeric cell is null,  *)
(* a string of characters or a number.                                     *)
(***************************************************************************)
NullText == [t |-> "null", s |-> ""]
Text(str) == [t |-> "str", s |-> str]

NullNum == [t |-> "null", cs |-> <<>>, n |-> 0]
NumStr(chars) == [t |-> "str", cs |-> chars, n |-> 0]
Num(hundredths) == [t |-> "num", cs |-> <<>>, n |-> hundredths]

\* JavaScript truthiness of a text cell value: null and '' are falsy
Falsy(cell) == cell.t = "null" \/ cell.s = ""

(***************************************************************************)
(* parseFloat and parseInt on strings: leading blanks are skipped, an      *)
(* optional sign is read, then the longest prefix of digits (and, for      *)
(* parseFloat, a fraction); no digit at all gives NaN.                     *)
(***************************************************************************)
Digits == <<"0", "1", "2", "3", "4", "5", "6", "7", "8", "9">>

IsDigit(c) == \E i \in 1..Len(Digits) : Digits[i] = c

DigitVal(c) == (CHOOSE i \in 1..Len(Digits) : Digits[i] = c) - 1

RECURSIVE SkipBlanks(_)
SkipBlanks(cs) ==
  IF cs # <<>> /\ cs[1] = " " THEN SkipBlanks(Tail(cs)) ELSE cs

RECURSIVE DigitPrefixLen(_)
DigitPrefixLen(cs) ==
  IF cs # <<>> /\ IsDigit(cs[1]) THEN 1 + DigitPrefixLen(Tail(cs)) ELSE 0

RECURSIVE DigitsValue(_, _)
DigitsValue(cs, k) ==
  IF k = 0 THEN 0 ELSE DigitsValue(cs, k - 1) * 10 + DigitVal(cs[k])

\* the sign read in front of the digits, and what follows it
SignOf(cs) == IF cs # <<>> /\ cs[1] = "-" THEN -1 ELSE 1

AfterSign(cs) == IF cs # <<>> /\ cs[1] \in {"-", "+"} THEN Tail(cs) ELSE cs

\* the first two fraction digits, as hundredths
FractionValue(cs, k) ==
  IF k = 0 THEN 0
  ELSE IF k = 1 THEN DigitVal(cs[1]) * 10
  ELSE DigitVal(cs[1]) * 10 + DigitVal(cs[2])

NaN == [nan |-> TRUE, v |-> 0]
Number(v) == [nan |-> FALSE, v |-> v]

StringToFloat(chars) ==
  LET body == AfterSign(SkipBlanks(chars))
      ip == DigitPrefixLen(body)
      rest == SubSeq(body, ip + 1, Len(body))
      hasDot == rest # <<>> /\ rest[1] = "."
      frac == IF hasDot THEN Tail(rest) ELSE <<>>
      fp == DigitPrefixLen(frac)
  IN IF ip = 0 /\ fp = 0 THEN NaN
     ELSE Number(SignOf(SkipBlanks(chars)) *
                 (DigitsValue(body, ip) * 100 + FractionValue(frac, fp)))

StringToInt(chars) ==
  LET body == AfterSign(SkipBlanks(chars))
      ip == DigitPrefixLen(body)
  IN IF ip = 0 THEN NaN
     ELSE Number(SignOf(SkipBlanks(chars)) * DigitsValue(body, ip))

\* integer part of a number of hundredths, truncated towards zero
Truncate(h) == IF h >= 0 THEN h \div 100 ELSE -((-h) \div 100)

\* parseFloat(cell.value): hundredths
parseFloat(cell) ==
  CASE cell.t = "null" -> NaN
    [] cell.t = "num" -> Number(cell.n)
    [] OTHER -> StringToFloat(cell.cs)

\* parseInt(cell.value): units
parseInt(cell) ==
  CASE cell.t = "null" -> NaN
    [] cell.t = "num" -> Number(Truncate(cell.n))
    [] OTHER -> StringToInt(cell.cs)

\* x || 0 on a number: NaN and 0 are falsy
OrZero(x) == IF x.nan \/ x.v = 0 THEN 0 ELSE x.v


(***************************************************************************)
(* Worksheet rows.  A row without values is not visited by eachRow         *)
(* ({ includeEmpty: false }); `throws` marks a row whose cells cannot be   *)
(* read, the case the try/catch of the row callback is there for.          *)
(***************************************************************************)
Row(name, description, category, weight, quantity, costPrice, sellingPrice, ifoodPrice) ==
  [empty |-> FALSE, throws |-> FALSE,
   name |-> name, description |-> description, category |-> category,
   weight |-> weight, quantity |-> quantity, costPrice |-> costPrice,
   sellingPrice |-> sellingPrice, ifoodPrice |-> ifoodPrice]

BlankRow ==
  Row(NullText, NullText, NullText, NullText, NullNum, NullNum, NullNum, NullNum)

EmptyRow == [BlankRow EXCEPT !.empty = TRUE]

ThrowingRow == [BlankRow EXCEPT !.throws = TRUE]

(***************************************************************************)
(* The row callback of worksheet.eachRow, products.js lines 62-110.        *)
(***************************************************************************)
validCategories == <<"Frango", "Carne", "Peixe", "Vegetariano">>

\* Array.prototype.includes
includes(array, value) == \E i \in 1..Len(array) : array[i] = value

\* lines 71-78: the eight cells as the callback reads them
RowName(row) == row.name
RowDescription(row) == IF Falsy(row.description) THEN "" ELSE row.description.s
RowCategory(row) == row.category
RowWeight(row) == row.weight
RowQuantity(row) == OrZero(parseInt(row.quantity))
RowCostPrice(row) == OrZero(parseFloat(row.costPrice))
RowSellingPrice(row) == OrZero(parseFloat(row.sellingPrice))
RowIfoodPrice(row) == OrZero(parseFloat(row.ifoodPrice))

\* line 81 with < for <=: a price of 0 passes
DadosInvalidosStrict(row) ==
  \/ Falsy(RowName(row))
  \/ Falsy(RowCategory(row))
  \/ RowCostPrice(row) < 0
  \/ RowSellingPrice(row) < 0

\* line 81 with the description required as well
DadosInvalidosWithDescription(row) ==
  \/ Falsy(RowName(row))
  \/ Falsy(row.description)
  \/ Falsy(RowCategory(row))
  \/ RowCostPrice(row) <= 0
  \/ RowSellingPrice(row) <= 0

\* line 81: !name || !category || costPrice <= 0 || sellingPrice <= 0
DadosInvalidos(row) ==
  \/ Falsy(RowName(row))
  \/ Falsy(RowCategory(row))
  \/ RowCostPrice(row) <= 0
  \/ RowSellingPrice(row) <= 0

\* line 88: !validCategories.includes(category)
CategoriaInvalida(row) == ~includes(validCategories, RowCategory(row).s)

MsgDados == "Dados invalidos (nome, categoria, e precos sao obrigatorios)"
MsgCategoria == "Categoria invalida"
MsgException == "exception"

\* line 82
DadosError(rowNumber) ==
  [linha |-> rowNumber, reason |-> MsgDados, category |-> "", use |-> <<>>]

\* line 89
CategoriaError(rowNumber, category) ==
  [linha |-> rowNumber, reason |-> MsgCategoria, category |-> category,
   use |-> validCategories]

\* line 108
ExceptionError(rowNumber) ==
  [linha |-> rowNumber, reason |-> MsgException, category |-> "", use |-> <<>>]

\* lines 94-104
Candidate(row) ==
  [name |-> RowName(row).s,
   description |-> RowDescription(row),
   category |-> RowCategory(row).s,
   weight |-> RowWeight(row),
   quantity |-> RowQuantity(row),
   costPrice |-> RowCostPrice(row),
   sellingPrice |-> RowSellingPrice(row),
   ifoodPrice |-> RowIfoodPrice(row),
   isActive |-> TRUE]

\* the two checks in the other order: line 88 before line 81
VerdictCategoryFirst(row) ==
  IF row.throws THEN "exception"
  ELSE IF CategoriaInvalida(row) THEN "categoria"
  ELSE IF DadosInvalidos(row) THEN "dados"
  ELSE "accept"

\* what the callback does with one data row:
\* "exception", "dados", "categoria" or "accept"
Verdict(row) ==
  IF row.throws THEN "exception"
  ELSE IF DadosInvalidos(row) THEN "dados"
  ELSE IF CategoriaInvalida(row) THEN "categoria"
  ELSE "accept"

\* the entry pushed on errors for a row that is not accepted
RowError(row, rowNumber) ==
  CASE Verdict(row) = "exception" -> ExceptionError(rowNumber)
    [] Verdict(row) = "dados" -> DadosError(rowNumber)
    [] OTHER -> CategoriaError(rowNumber, RowCategory(row).s)

\* line 63 with a 0-based row number
IsHeaderZeroBased(rowNumber) == rowNumber = 0

\* line 63
IsHeader(rowNumber) == rowNumber = 1

\* eachRow({ includeEmpty: false }): the next row with values after `after`,
\* 0 when there is none
NextRow(worksheet, after) ==
  LET later == {j \in (after + 1)..Len(worksheet) : ~worksheet[j].empty}
  IN IF later = {} THEN 0 ELSE CHOOSE j \in later : \A k \in later : j <= k

(***************************************************************************)
(* The Product schema (README.md lines 113-163) as Mongoose validates it   *)
(* on insertMany: required strings must be non-empty, category must be in  *)
(* the enum, required numbers must be present.                             *)
(***************************************************************************)
CategoryEnum == {"Frango", "Carne", "Peixe", "Vegetariano"}

SchemaValid(doc) ==
  /\ doc.name # ""
  /\ doc.description # ""
  /\ doc.category \in CategoryEnum
  /\ ~Falsy(doc.weight)

\* Product.insertMany(docs): all documents are stored, or none when the call fails
insertMany(collection, docs, fails) ==
  IF fails THEN collection ELSE collection \o docs

(***************************************************************************)
(* Inputs: the rows a worksheet is made of, and the uploads of a request.  *)
(***************************************************************************)
\* accepted: every cell present, numbers written as text
ValidRow ==
  Row(Text("Frango a Milanesa"), Text("desc"), Text("Frango"), Text("300g"),
      NumStr(<<"1", "0">>), NumStr(<<"1", "5", ".", "0", "0">>),
      NumStr(<<"2", "9", ".", "9">>), NumStr(<<"3", "2", ".", "9", "0">>))

\* accepted: numbers in number cells, no quantity, no iFood price
NumericRow ==
  Row(Text("Bife"), Text("grelhado"), Text("Carne"), Text("200g"),
      NullNum, Num(1000), Num(2050), NullNum)

\* rejected by line 81: no name
NoNameRow == [ValidRow EXCEPT !.name = Text("")]

\* rejected by line 88: a category outside the list
DoceRow == [ValidRow EXCEPT !.name = Text("Bolo"), !.category = Text("Doce")]

\* the rows of the multi-row worksheets
SampleRows == {ValidRow, NumericRow, NoNameRow, DoceRow, EmptyRow, ThrowingRow}

NameCells == {NullText, Text(""), Text("Bolo")}
CategoryCells == {NullText, Text(""), Text("Peixe"), Text("Vegetariano"), Text("Doce")}
CostCells == {NullNum, NumStr(<<"0">>), NumStr(<<"-", "5">>), Num(1500)}
SellingCells == {NullNum, NumStr(<<"a", "b", "c">>), Num(0), NumStr(<<" ", "2", "0", ".", "5", "x">>)}
QuantityCells == {NullNum, NumStr(<<"a", "b", "c">>), NumStr(<<"1", "2", "k", "g">>), Num(750)}

\* every combination of the four cells line 81 and line 88 look at, with the
\* quantity cell varied beside them
CellRows ==
  {[ValidRow EXCEPT !.name = n, !.category = c, !.costPrice = cp,
                    !.sellingPrice = sp, !.quantity = q] :
     n \in NameCells, c \in CategoryCells, cp \in CostCells,
     sp \in SellingCells, q \in QuantityCells}

DescriptionCells == {NullText, Text(""), Text("desc")}
WeightCells == {NullText, Text("300g")}
IfoodCells == {NullNum, NumStr(<<"3", "2", ".", "9", "0">>)}

\* the cells no check of the callback looks at, varied on otherwise valid rows
OptionalCellRows ==
  {[r EXCEPT !.description = d, !.weight = w, !.ifoodPrice = ip] :
     r \in {ValidRow, NumericRow}, d \in DescriptionCells, w \in WeightCells,
     ip \in IfoodCells}

RECURSIVE SeqsUpTo(_, _)
SeqsUpTo(S, n) ==
  IF n = 0 THEN {<<>>}
  ELSE LET shorter == SeqsUpTo(S, n - 1)
       IN shorter \cup {Append(w, x) : w \in {v \in shorter : Len(v) = n - 1}, x \in S}

\* worksheets: up to MaxRows sample rows, or a header and one row of
\* CellRows or OptionalCellRows
Worksheets ==
  SeqsUpTo(SampleRows, MaxRows)
    \cup {<<ValidRow, r>> : r \in CellRows \cup OptionalCellRows}

\* req.file and what workbook.xlsx.readFile / getWorksheet(1) find in it
NoFile == [file |-> FALSE, readable |-> FALSE, hasWorksheet |-> FALSE, worksheet |-> <<>>]
Unreadable == [file |-> TRUE, readable |-> FALSE, hasWorksheet |-> FALSE, worksheet |-> <<>>]
NoWorksheet == [file |-> TRUE, readable |-> TRUE, hasWorksheet |-> FALSE, worksheet |-> <<>>]
Workbook(ws) == [file |-> TRUE, readable |-> TRUE, hasWorksheet |-> TRUE, worksheet |-> ws]

Uploads == {NoFile, Unreadable, NoWorksheet} \cup {Workbook(ws) : ws \in Worksheets}

\* a product stored before the request
SeedProduct ==
  [name |-> "Tilapia", description |-> "file", category |-> "Peixe",
   weight |-> Text("250g"), quantity |-> 4, costPrice |-> 1200,
   sellingPrice |-> 2500, ifoodPrice |-> 2800, isActive |-> FALSE]

(***************************************************************************)
(* State of one import request.                                            *)
(***************************************************************************)
VARIABLES
  pc,               \* where the handler is
  upload,           \* the request: req.file and the workbook in it
  fileOnDisk,       \* the temporary file multer wrote exists
  rowNumber,        \* the last row number eachRow handed to the callback
  productsToCreate, \* line 56
  errors,           \* line 57
  rowCount,         \* line 58
  successCount,     \* line 59
  products,         \* the Product collection
  insertCalls,      \* the batches Product.insertMany was called with
  error,            \* the call whose exception the catch of line 126 received
  responses         \* the responses sent on res

vars == <<pc, upload, fileOnDisk, rowNumber, productsToCreate, errors,
          rowCount, successCount, products, insertCalls, error, responses>>

locals == <<rowNumber, productsToCreate, errors, rowCount, successCount>>

(***************************************************************************)
(* State of the client of the product routes, of the pages that call the   *)
(* helpers, and of a browser session.                                      *)
(***************************************************************************)
VARIABLES
  request,          \* the request the product routes received last, or
                    \* the path the user sent the browser to last
  reply,            \* what the routes answered to it
  page,             \* the products a page holds and its clock
  output,           \* what the helper called last returned
  accounts,         \* the users the server stores
  session,          \* the user the AuthContext holds
  location,         \* the path the browser is at
  inflight,         \* the toggle requests the server is handling
  dialog            \* the state of the dialogs of a page

\* the variables no step of the import handler touches
others ==
  <<request, reply, page, output, accounts, session, location, inflight, dialog>>

allVars == <<vars, others>>

\* the values of these variables while nothing uses them: no request was
\* sent to the product routes, no page is open, no browser is open
Idle ==
  [request |-> [route |-> "none", token |-> "none"],
   reply |-> [status |-> 0, error |-> "", handler |-> "none", sheet |-> <<>>,
              body |-> <<>>],
   page |-> [listing |-> <<>>, today |-> 0],
   output |-> [fn |-> "none", number |-> [kind |-> "finite", num |-> 0, den |-> 1],
               value |-> 0, flags |-> <<>>],
   accounts |-> <<>>,
   session |-> [name |-> "", role |-> "", isFirstAccess |-> FALSE],
   location |-> "",
   inflight |-> <<>>,
   dialog |-> [page |-> "none"]]

Init ==
  /\ pc = "start"
  /\ upload \in Uploads
  /\ fileOnDisk = upload.file
  /\ rowNumber = 0
  /\ productsToCreate = <<>>
  /\ errors = <<>>
  /\ rowCount = 0
  /\ successCount = 0
  /\ products \in {<<>>, <<SeedProduct>>}
  /\ insertCalls = <<>>
  /\ error = "none"
  /\ responses = <<>>
  /\ request = Idle.request
  /\ reply = Idle.reply
  /\ page = Idle.page
  /\ output = Idle.output
  /\ accounts = Idle.accounts
  /\ session = Idle.session
  /\ location = Idle.location
  /\ inflight = Idle.inflight
  /\ dialog = Idle.dialog

\* res.status(status).json({ error })
ErrorResponse(status, text) ==
  [status |-> status, error |-> text, summary |-> FALSE,
   message |-> 0, total |-> 0, success |-> 0, errors |-> <<>>]

\* lines 120-125: res.json({ message, total, success, errors })
SummaryResponse(total, success, errs) ==
  [status |-> 200, error |-> "", summary |-> TRUE,
   message |-> success, total |-> total, success |-> success, errors |-> errs]

\* lines 42-44
CheckFile ==
  /\ pc = "start"
  /\ IF ~upload.file
       THEN /\ responses' = Append(responses, ErrorResponse(400, "Nenhum arquivo foi enviado"))
            /\ pc' = "done"
       ELSE /\ pc' = "readFile"
            /\ UNCHANGED responses
  /\ UNCHANGED <<upload, fileOnDisk, locals, products, insertCalls, error>>
  /\ UNCHANGED others

\* lines 47-48: readFile throws on a file that is no workbook
ReadFile ==
  /\ pc = "readFile"
  /\ pc' = IF upload.readable THEN "getWorksheet" ELSE "catch"
  /\ error' = IF upload.readable THEN error ELSE "readFile"
  /\ UNCHANGED <<upload, fileOnDisk, locals, products, insertCalls, responses>>
  /\ UNCHANGED others

\* lines 50-59 without the check of line 52
GetWorksheetUnchecked ==
  /\ pc = "getWorksheet"
  /\ pc' = "eachRow"
  /\ UNCHANGED <<upload, fileOnDisk, locals, products, insertCalls, error, responses>>
  /\ UNCHANGED others

\* lines 50-59
GetWorksheet ==
  /\ pc = "getWorksheet"
  /\ IF ~upload.hasWorksheet
       THEN /\ responses' = Append(responses, ErrorResponse(400, "A planilha nao contem dados"))
            /\ pc' = "done"
       ELSE /\ pc' = "eachRow"
            /\ UNCHANGED responses
  /\ UNCHANGED <<upload, fileOnDisk, locals, products, insertCalls, error>>
  /\ UNCHANGED others

\* the callback with a catch block that records nothing
RowCallbackSwallow(row, n) ==
  IF IsHeader(n)
    THEN UNCHANGED <<productsToCreate, errors, rowCount, successCount>>
    ELSE /\ rowCount' = rowCount + 1
         /\ IF Verdict(row) = "accept"
              THEN /\ productsToCreate' = Append(productsToCreate, Candidate(row))
                   /\ successCount' = successCount + 1
                   /\ UNCHANGED errors
              ELSE /\ errors' = IF Verdict(row) = "exception" THEN errors
                                ELSE Append(errors, RowError(row, n))
                   /\ UNCHANGED <<productsToCreate, successCount>>

\* the callback with errors.unshift for errors.push
RowCallbackUnshift(row, n) ==
  IF IsHeader(n)
    THEN UNCHANGED <<productsToCreate, errors, rowCount, successCount>>
    ELSE /\ rowCount' = rowCount + 1
         /\ IF Verdict(row) = "accept"
              THEN /\ productsToCreate' = Append(productsToCreate, Candidate(row))
                   /\ successCount' = successCount + 1
                   /\ UNCHANGED errors
              ELSE /\ errors' = <<RowError(row, n)>> \o errors
                   /\ UNCHANGED <<productsToCreate, successCount>>

\* lines 63-109: the callback on one row
RowCallback(row, n) ==
  IF IsHeader(n)
    THEN UNCHANGED <<productsToCreate, errors, rowCount, successCount>>
    ELSE /\ rowCount' = rowCount + 1
         /\ IF Verdict(row) = "accept"
              THEN /\ productsToCreate' = Append(productsToCreate, Candidate(row))
                   /\ successCount' = successCount + 1
                   /\ UNCHANGED errors
              ELSE /\ errors' = Append(errors, RowError(row, n))
                   /\ UNCHANGED <<productsToCreate, successCount>>

\* line 62: eachRow calls the callback on the next row that has values
EachRow ==
  /\ pc = "eachRow"
  /\ NextRow(upload.worksheet, rowNumber) # 0
  /\ rowNumber' = NextRow(upload.worksheet, rowNumber)
  /\ RowCallback(upload.worksheet[rowNumber'], rowNumber')
  /\ UNCHANGED <<pc, upload, fileOnDisk, products, insertCalls, error, responses>>
  /\ UNCHANGED others

\* line 110: eachRow returns after the last row
EachRowEnd ==
  /\ pc = "eachRow"
  /\ NextRow(upload.worksheet, rowNumber) = 0
  /\ pc' = "insertMany"
  /\ UNCHANGED <<upload, fileOnDisk, locals, products, insertCalls, error, responses>>
  /\ UNCHANGED others

\* lines 113-115 without the length check of line 113
InsertManyAlways ==
  /\ pc = "insertMany"
  /\ \E storeFails \in BOOLEAN :
       LET fails == storeFails \/ \E i \in 1..Len(productsToCreate) :
                                     ~SchemaValid(productsToCreate[i])
       IN /\ insertCalls' = Append(insertCalls, productsToCreate)
          /\ products' = insertMany(products, productsToCreate, fails)
          /\ pc' = IF fails THEN "catch" ELSE "unlink"
          /\ error' = IF fails THEN "insertMany" ELSE error
  /\ UNCHANGED <<upload, fileOnDisk, locals, responses>>
  /\ UNCHANGED others

\* lines 113-115: one bulk insert, skipped when nothing was accepted; it
\* throws when a document fails the schema or when the store fails
InsertMany ==
  /\ pc = "insertMany"
  /\ IF Len(productsToCreate) > 0
       THEN \E storeFails \in BOOLEAN :
              LET fails == storeFails \/ \E i \in 1..Len(productsToCreate) :
                                            ~SchemaValid(productsToCreate[i])
              IN /\ insertCalls' = Append(insertCalls, productsToCreate)
                 /\ products' = insertMany(products, productsToCreate, fails)
                 /\ pc' = IF fails THEN "catch" ELSE "unlink"
                 /\ error' = IF fails THEN "insertMany" ELSE error
       ELSE /\ pc' = "unlink"
            /\ UNCHANGED <<products, insertCalls, error>>
  /\ UNCHANGED <<upload, fileOnDisk, locals, responses>>
  /\ UNCHANGED others

\* lines 117-125: remove the temporary file, then answer with the summary;
\* unlinkSync may throw
UnlinkAndRespond ==
  /\ pc = "unlink"
  /\ \E unlinked \in BOOLEAN :
       IF unlinked
         THEN /\ fileOnDisk' = FALSE
              /\ responses' = Append(responses,
                                SummaryResponse(rowCount, successCount, errors))
              /\ pc' = "done"
              /\ UNCHANGED error
         ELSE /\ pc' = "catch"
              /\ error' = "unlinkSync"
              /\ UNCHANGED <<fileOnDisk, responses>>
  /\ UNCHANGED <<upload, locals, products, insertCalls>>
  /\ UNCHANGED others

\* lines 126-135 answering with the tallies built so far
CatchWithSummary ==
  /\ pc = "catch"
  /\ \E unlinked \in BOOLEAN :
       IF upload.file /\ fileOnDisk /\ ~unlinked
         THEN /\ pc' = "rejected"
              /\ UNCHANGED <<fileOnDisk, responses>>
         ELSE /\ fileOnDisk' = FALSE
              /\ responses' = Append(responses,
                                [SummaryResponse(rowCount, successCount, errors)
                                   EXCEPT !.status = 500])
              /\ pc' = "done"
  /\ UNCHANGED <<upload, locals, products, insertCalls, error>>
  /\ UNCHANGED others

\* lines 126-135: remove the temporary file if it exists, then answer 500; an
\* unlinkSync that throws here leaves the request without a response
Catch ==
  /\ pc = "catch"
  /\ \E unlinked \in BOOLEAN :
       IF upload.file /\ fileOnDisk /\ ~unlinked
         THEN /\ pc' = "rejected"
              /\ UNCHANGED <<fileOnDisk, responses>>
         ELSE /\ fileOnDisk' = FALSE
              /\ responses' = Append(responses,
                                ErrorResponse(500, "Erro ao importar produtos do Excel"))
              /\ pc' = "done"
  /\ UNCHANGED <<upload, locals, products, insertCalls, error>>
  /\ UNCHANGED others

Next ==
  \/ CheckFile
  \/ ReadFile
  \/ GetWorksheet
  \/ EachRow
  \/ EachRowEnd
  \/ InsertMany
  \/ UnlinkAndRespond
  \/ Catch

Spec == Init /\ [][Next]_vars

(***************************************************************************)
(* The product routes, products.js lines 30-321, as a client calls them    *)
(* one after the other.  A product is addressed by its position in the     *)
(* collection.  Timestamps (createdAt, updatedAt) are left out.            *)
(***************************************************************************)
\* largest number of products the client lets the collection grow to; an
\* import may take it one further, and then the client stops
MaxProducts == 3

\* the bearer credential of a request: none, or one issued to a user of the
\* given role
Tokens == {"none", "user", "admin"}

\* the auth middleware: the request goes on when its credential verifies
auth(token) == token \in {"user", "admin"}

\* the answer of the auth middleware to a request it does not let through
Unauthenticated ==
  [status |-> 401, error |-> "unauthenticated", handler |-> "none",
   sheet |-> <<>>, body |-> <<>>]

\* res.status(status).json({ error }) of the handler of `route`
RouteError(route, status, text) ==
  [status |-> status, error |-> text, handler |-> route, sheet |-> <<>>,
   body |-> <<>>]

\* res.status(status).json(docs) of the handler of `route`
RouteJson(route, status, docs) ==
  [status |-> status, error |-> "", handler |-> route, sheet |-> <<>>,
   body |-> docs]

\* a request body: the fields of `absent` are undefined
BodyA ==
  [name |-> "Frango Grelhado", description |-> "peito", category |-> "Frango",
   weight |-> "300g", quantity |-> 10, costPrice |-> 1500,
   sellingPrice |-> 2990, ifoodPrice |-> 3290, absent |-> {}]

\* a body the schema accepts, with a cost price of 0
BodyZero == [BodyA EXCEPT !.name = "Brinde", !.category = "Carne", !.costPrice = 0]

\* the bodies of POST /: the two above, one with a category outside the enum
\* and one without costPrice
Bodies ==
  {BodyA, BodyZero, [BodyA EXCEPT !.category = "Doce"],
   [BodyA EXCEPT !.absent = {"costPrice"}]}

\* lines 233-243: new Product({ ... }) with the defaults of the schema
NewProduct(body) ==
  [name |-> IF "name" \in body.absent THEN "" ELSE body.name,
   description |-> IF "description" \in body.absent THEN "" ELSE body.description,
   category |-> IF "category" \in body.absent THEN "" ELSE body.category,
   weight |-> IF "weight" \in body.absent THEN NullText ELSE Text(body.weight),
   quantity |-> IF "quantity" \in body.absent THEN 0 ELSE body.quantity,
   costPrice |-> body.costPrice,
   sellingPrice |-> body.sellingPrice,
   ifoodPrice |-> body.ifoodPrice,
   isActive |-> TRUE]

\* what save() validates: the required paths (quantity has a default) are
\* there and the schema holds
SaveValid(body) ==
  /\ body.absent \cap {"name", "description", "category", "costPrice",
                       "sellingPrice", "ifoodPrice", "weight"} = {}
  /\ SchemaValid(NewProduct(body))

(***************************************************************************)
(* The worksheet of GET /export/excel, lines 147-199.  A ratio is the      *)
(* exact quotient num / den of two integers.                               *)
(***************************************************************************)
Ratio(num, den) == [num |-> num, den |-> den]

\* the two ratios are the same number
RatioEq(a, b) == a.num * b.den = b.num * a.den

HeaderRow ==
  [header |-> TRUE, name |-> "Nome", description |-> "Descricao",
   category |-> "Categoria", weight |-> Text("Peso"), quantity |-> 0,
   costPrice |-> 0, sellingPrice |-> 0, ifoodPrice |-> 0,
   marginPercentage |-> Ratio(0, 1), marginValue |-> 0, status |-> "Status"]

\* lines 172-190: the row added for one product
ExportRow(product) ==
  [header |-> FALSE,
   name |-> product.name,
   description |-> product.description,
   category |-> product.category,
   weight |-> product.weight,
   quantity |-> product.quantity,
   costPrice |-> product.costPrice,
   sellingPrice |-> product.sellingPrice,
   ifoodPrice |-> product.ifoodPrice,
   marginPercentage |->
     IF product.costPrice > 0
       THEN Ratio((product.sellingPrice - product.costPrice) * 100, product.costPrice)
       ELSE Ratio(0, 1),
   marginValue |-> product.sellingPrice - product.costPrice,
   status |-> IF product.isActive THEN "Ativo" ELSE "Inativo"]

\* lines 151-191: the header row, then one row per product
ExportWorksheet(docs) ==
  <<HeaderRow>> \o [i \in 1..Len(docs) |-> ExportRow(docs[i])]

(***************************************************************************)
(* The exported file as the import reads it back: the first eight columns  *)
(* of each row, the numbers in number cells.                               *)
(***************************************************************************)
\* the file keeps no cell for an empty string
SheetRow(exported) ==
  LET TextCell(str) == IF str = "" THEN NullText ELSE Text(str)
  IN
  IF exported.header
    THEN Row(Text(exported.name), Text(exported.description),
             Text(exported.category), exported.weight, NumStr(<<"Q">>),
             NumStr(<<"P">>), NumStr(<<"P">>), NumStr(<<"P">>))
    ELSE Row(TextCell(exported.name), TextCell(exported.description),
             TextCell(exported.category), exported.weight,
             Num(exported.quantity * 100), Num(exported.costPrice),
             Num(exported.sellingPrice), Num(exported.ifoodPrice))

\* the files a client uploads: none, or the file the last request exported
ApiUploads ==
  {NoFile} \cup
    (IF reply.sheet = <<>> THEN {}
     ELSE {Workbook([i \in 1..Len(reply.sheet) |-> SheetRow(reply.sheet[i])])})

(***************************************************************************)
(* The routes.  A request is handled when no import is under way.          *)
(***************************************************************************)
\* no import request was received and the collection is empty
ImportIdle ==
  /\ pc = "idle"
  /\ upload = NoFile
  /\ fileOnDisk = FALSE
  /\ rowNumber = 0
  /\ productsToCreate = <<>>
  /\ errors = <<>>
  /\ rowCount = 0
  /\ successCount = 0
  /\ insertCalls = <<>>
  /\ error = "none"
  /\ responses = <<>>

InitApi ==
  /\ ImportIdle
  /\ products = <<>>
  /\ request = Idle.request
  /\ reply = Idle.reply
  /\ page = Idle.page
  /\ output = Idle.output
  /\ accounts = Idle.accounts
  /\ session = Idle.session
  /\ location = Idle.location
  /\ inflight = Idle.inflight
  /\ dialog = Idle.dialog

\* the client sends its next request: the import handler is not running
Free == pc \in {"idle", "done", "rejected"} /\ Len(products) <= MaxProducts

\* the frame of the last import request is gone
ReleaseImport ==
  /\ pc' = "idle"
  /\ upload' = NoFile
  /\ fileOnDisk' = FALSE
  /\ rowNumber' = 0
  /\ productsToCreate' = <<>>
  /\ errors' = <<>>
  /\ rowCount' = 0
  /\ successCount' = 0
  /\ insertCalls' = <<>>
  /\ error' = "none"
  /\ responses' = <<>>

\* a route registered without the auth middleware
HandleUnguarded(route, token, answer, docs) ==
  /\ Free
  /\ ReleaseImport
  /\ request' = [route |-> route, token |-> token]
  /\ reply' = answer
  /\ products' = docs
  /\ UNCHANGED <<page, output, accounts, session, location, inflight, dialog>>

\* router.verb(path, auth, handler): a request the auth middleware stops, or
\* one whose handler answers `answer` and leaves the collection as `docs`
Handle(route, token, answer, docs) ==
  /\ Free
  /\ ReleaseImport
  /\ request' = [route |-> route, token |-> token]
  /\ IF auth(token)
       THEN reply' = answer /\ products' = docs
       ELSE reply' = Unauthenticated /\ UNCHANGED products
  /\ UNCHANGED <<page, output, accounts, session, location, inflight, dialog>>

\* lines 30-38: GET /
ListProducts ==
  \E token \in Tokens, storeFails \in BOOLEAN :
    Handle("list", token,
           IF storeFails THEN RouteError("list", 500, "Erro ao buscar produtos")
           ELSE RouteJson("list", 200, products),
           products)

\* line 41: POST /import/excel passes auth and multer, then the handler of
\* lines 42-135 starts
ImportExcel ==
  \E token \in Tokens, file \in ApiUploads :
    /\ Free
    /\ Len(products) + Len(file.worksheet) <= MaxProducts + 2
    /\ request' = [route |-> "import", token |-> token]
    /\ IF auth(token)
         THEN /\ pc' = "start"
              /\ upload' = file
              /\ fileOnDisk' = file.file
              /\ reply' = [Idle.reply EXCEPT !.handler = "import"]
         ELSE /\ pc' = "idle"
              /\ upload' = NoFile
              /\ fileOnDisk' = FALSE
              /\ reply' = Unauthenticated
    /\ rowNumber' = 0
    /\ productsToCreate' = <<>>
    /\ errors' = <<>>
    /\ rowCount' = 0
    /\ successCount' = 0
    /\ insertCalls' = <<>>
    /\ error' = "none"
    /\ responses' = <<>>
    /\ UNCHANGED <<products, page, output, accounts, session, location, inflight, dialog>>

MsgNoProducts == "Nao ha produtos cadastrados para exportar"

\* lines 141-211 without the check of line 143
ExportAnswerUnchecked(storeFails) ==
  IF storeFails
    THEN RouteError("export", 500, "Erro ao exportar produtos para Excel")
  ELSE [RouteJson("export", 200, <<>>) EXCEPT !.sheet = ExportWorksheet(products)]

\* lines 141-211: what the handler of GET /export/excel answers
ExportAnswer(storeFails) ==
  IF storeFails
    THEN RouteError("export", 500, "Erro ao exportar produtos para Excel")
  ELSE IF Len(products) = 0
    THEN RouteError("export", 404, MsgNoProducts)
  ELSE [RouteJson("export", 200, <<>>) EXCEPT !.sheet = ExportWorksheet(products)]

\* lines 139-212: GET /export/excel
ExportExcel ==
  \E token \in Tokens, storeFails \in BOOLEAN :
    Handle("export", token, ExportAnswer(storeFails), products)

\* ProductManagement.tsx lines 799-821: the export button.  The list of the
\* page can be behind the collection; with an empty list no request is sent
handleExportToExcel ==
  \E listEmpty \in BOOLEAN, token \in Tokens, storeFails \in BOOLEAN :
    IF listEmpty
      THEN /\ Free
           /\ ReleaseImport
           /\ request' = Idle.request
           /\ reply' = [Idle.reply EXCEPT !.error = MsgNoProducts]
           /\ UNCHANGED <<products, page, output, accounts, session, location, inflight, dialog>>
      ELSE Handle("export", token, ExportAnswer(storeFails), products)

NotFound(route) == RouteError(route, 404, "Produto nao encontrado")

\* lines 215-226: GET /:id
GetProduct ==
  \E token \in Tokens, id \in 1..(Len(products) + 1), storeFails \in BOOLEAN :
    Handle("get", token,
           IF storeFails THEN RouteError("get", 500, "Erro ao buscar produto")
           ELSE IF id > Len(products) THEN NotFound("get")
           ELSE RouteJson("get", 200, <<products[id]>>),
           products)

\* lines 229-251: POST /
CreateProduct ==
  \E token \in Tokens, body \in Bodies, storeFails \in BOOLEAN :
    /\ Len(products) < MaxProducts
    /\ IF storeFails \/ ~SaveValid(body)
         THEN Handle("create", token,
                     RouteError("create", 400, "Erro ao criar produto"), products)
         ELSE Handle("create", token,
                     RouteJson("create", 201, <<NewProduct(body)>>),
                     Append(products, NewProduct(body)))

\* lines 254-284: PUT /:id; findByIdAndUpdate sets the fields of the body
\* without validating them, isActive stays
UpdateProduct ==
  \E token \in Tokens, id \in 1..(Len(products) + 1), body \in {BodyA, BodyZero},
     storeFails \in BOOLEAN :
    IF storeFails
      THEN Handle("update", token,
                  RouteError("update", 400, "Erro ao atualizar produto"), products)
    ELSE IF id > Len(products)
      THEN Handle("update", token, NotFound("update"), products)
    ELSE LET updated == [NewProduct(body) EXCEPT !.isActive = products[id].isActive]
         IN Handle("update", token, RouteJson("update", 200, <<updated>>),
                   [products EXCEPT ![id] = updated])

\* lines 287-305: PATCH /:id/toggle-status
ToggleStatus ==
  \E token \in Tokens, id \in 1..(Len(products) + 1), storeFails \in BOOLEAN :
    IF storeFails
      THEN Handle("toggle", token,
                  RouteError("toggle", 500, "Erro ao alternar status do produto"),
                  products)
    ELSE IF id > Len(products)
      THEN Handle("toggle", token, NotFound("toggle"), products)
    ELSE LET toggled == [products[id] EXCEPT !.isActive = ~products[id].isActive]
         IN Handle("toggle", token, RouteJson("toggle", 200, <<toggled>>),
                   [products EXCEPT ![id] = toggled])

\* lines 308-321: DELETE /:id
DeleteProduct ==
  \E token \in Tokens, id \in 1..(Len(products) + 1), storeFails \in BOOLEAN :
    IF storeFails
      THEN Handle("delete", token,
                  RouteError("delete", 500, "Erro ao deletar produto"), products)
    ELSE IF id > Len(products)
      THEN Handle("delete", token, NotFound("delete"), products)
    ELSE Handle("delete", token, RouteJson("delete", 200, <<>>),
                SubSeq(products, 1, id - 1) \o SubSeq(products, id + 1, Len(products)))

NextApi ==
  \/ ListProducts
  \/ ImportExcel
  \/ ExportExcel
  \/ handleExportToExcel
  \/ GetProduct
  \/ CreateProduct
  \/ UpdateProduct
  \/ ToggleStatus
  \/ DeleteProduct
  \/ CheckFile
  \/ ReadFile
  \/ GetWorksheet
  \/ EachRow
  \/ EachRowEnd
  \/ InsertMany
  \/ UnlinkAndRespond
  \/ Catch

SpecApi == InitApi /\ [][NextApi]_allVars

(***************************************************************************)
(* The helpers of the stock page (unnamed/part_002) and of the product     *)
(* page (frontend/src/pages/ProductManagement.tsx).  Times are counted in  *)
(* seconds.  The quotient of two numbers, as JavaScript computes it, is    *)
(* finite, Infinity, -Infinity or NaN.                                     *)
(***************************************************************************)
\* largest quantity of a product on the stock page
MaxQuantity == 8

\* latest expiration date, in days from today
MaxDays == 61

\* a / b
Quotient(a, b) ==
  IF b # 0 THEN [kind |-> "finite", num |-> (IF b > 0 THEN a ELSE -a),
                 den |-> (IF b > 0 THEN b ELSE -b)]
  ELSE IF a > 0 THEN [kind |-> "Infinity", num |-> 0, den |-> 1]
  ELSE IF a < 0 THEN [kind |-> "-Infinity", num |-> 0, den |-> 1]
  ELSE [kind |-> "NaN", num |-> 0, den |-> 1]

\* q * 100
Times100(q) == [q EXCEPT !.num = q.num * 100]

\* q.toFixed(2), in hundredths: the nearest, the one further from 0 on a tie
toFixed2(q) ==
  IF q.kind # "finite" THEN q
  ELSE LET magnitude == IF q.num >= 0 THEN q.num ELSE -q.num
           digits == (2 * magnitude * 100 + q.den) \div (2 * q.den)
       IN [kind |-> "finite", num |-> (IF q.num >= 0 THEN digits ELSE -digits),
           den |-> 100]

\* ProductManagement.tsx lines 427-431, the number in front of '%'
calculateProfitMarginPercentage(costPrice, sellingPrice) ==
  IF costPrice <= 0 THEN Quotient(0, 1)
  ELSE toFixed2(Times100(Quotient(sellingPrice - costPrice, costPrice)))

\* ProductManagement.tsx lines 481 and 488: currentMargin of
\* calculateMarketSuggestions
currentMargin(product) ==
  toFixed2(Times100(Quotient(product.sellingPrice - product.costPrice,
                             product.costPrice)))

\* part_002 line 42 and ProductManagement.tsx line 511, with the factor 1000
\* of the milliseconds left out
Day == 24 * 60 * 60

EXPIRATION_WARNING_THRESHOLD == 60 * Day

ProductPageThreshold == 60 * Day

\* an expiration date; a product without one has Date("absent", 0)
Date(kind, time) == [absent |-> kind = "absent", time |-> time]

\* part_002 line 70 with < for <=
isNearExpirationStrict(expirationDate, today) ==
  IF expirationDate.absent THEN FALSE
  ELSE LET timeRemaining == expirationDate.time - today
       IN timeRemaining > 0 /\ timeRemaining < EXPIRATION_WARNING_THRESHOLD

\* part_002 lines 63-71
isNearExpiration(expirationDate, today) ==
  IF expirationDate.absent THEN FALSE
  ELSE LET timeRemaining == expirationDate.time - today
       IN timeRemaining > 0 /\ timeRemaining <= EXPIRATION_WARNING_THRESHOLD

\* part_002 lines 74-81
isExpired(expirationDate, today) ==
  IF expirationDate.absent THEN FALSE ELSE expirationDate.time < today

\* ProductManagement.tsx lines 514-522
isNearExpirationProductPage(expirationDate, today) ==
  IF expirationDate.absent THEN FALSE
  ELSE LET timeRemaining == expirationDate.time - today
       IN timeRemaining > 0 /\ timeRemaining <= ProductPageThreshold

\* ProductManagement.tsx lines 525-532
isExpiredProductPage(expirationDate, today) ==
  IF expirationDate.absent THEN FALSE ELSE expirationDate.time < today

\* part_002 lines 84-103 with < for <= at the tier of 7 days
calculateSuggestedDiscountStrict(expirationDate, today) ==
  IF expirationDate.absent THEN 0
  ELSE LET timeRemaining == expirationDate.time - today
       IN IF timeRemaining <= 0 THEN 50
          ELSE IF timeRemaining <= 1 * Day THEN 40
          ELSE IF timeRemaining < 7 * Day THEN 25
          ELSE IF timeRemaining <= 30 * Day THEN 15
          ELSE 10

\* part_002 lines 84-103; daysRemaining <= n is timeRemaining <= n * Day
calculateSuggestedDiscount(expirationDate, today) ==
  IF expirationDate.absent THEN 0
  ELSE LET timeRemaining == expirationDate.time - today
       IN IF timeRemaining <= 0 THEN 50
          ELSE IF timeRemaining <= 1 * Day THEN 40
          ELSE IF timeRemaining <= 7 * Day THEN 25
          ELSE IF timeRemaining <= 30 * Day THEN 15
          ELSE 10

\* part_002 line 39: 0.4
LOW_STOCK_THRESHOLD == Quotient(4, 10)

\* part_002 lines 45-60
getIdealStock(product) ==
  CASE product.category = "Frango" -> 20
    [] product.category = "Carne" -> 15
    [] product.category = "Peixe" -> 10
    [] product.category = "Vegetariano" -> 12
    [] OTHER -> 15

\* part_002 lines 164-167
getStockLevel(product) ==
  Times100(Quotient(product.quantity, getIdealStock(product)))

\* part_002 line 138 with <= for <
lowStockInclusive(product) ==
  product.quantity * LOW_STOCK_THRESHOLD.den
    <= getIdealStock(product) * LOW_STOCK_THRESHOLD.num

\* part_002 line 138: quantity < idealStock * LOW_STOCK_THRESHOLD
lowStock(product) ==
  product.quantity * LOW_STOCK_THRESHOLD.den
    < getIdealStock(product) * LOW_STOCK_THRESHOLD.num

\* part_002 lines 126-140: lowStockCount of the summary
lowStockCount(listing) ==
  Len(SelectSeq(listing, LAMBDA product : product.isActive /\ lowStock(product)))

\* part_002 lines 337-339: isLowStock of the rows of the table
isLowStock(listing) ==
  LET rows == SelectSeq(listing, LAMBDA product : product.isActive)
      Less(a, b) == a.num * b.den < b.num * a.den
  IN [i \in 1..Len(rows) |->
        Less(getStockLevel(rows[i]), Times100(LOW_STOCK_THRESHOLD))]

(***************************************************************************)
(* The helpers applied to the products of a page.                          *)
(***************************************************************************)
\* a product as the pages receive it
PageProduct ==
  [name |-> "Frango Grelhado", description |-> "peito", category |-> "Frango",
   weight |-> Text("300g"), quantity |-> 10, costPrice |-> 1500,
   sellingPrice |-> 2990, ifoodPrice |-> 3290, isActive |-> TRUE,
   expirationDate |-> Date("absent", 0)]

Today == 20000 * Day

\* the products of a page: one with the prices varied, one with the
\* expiration date varied, or up to two with category, quantity and status
\* varied
Listings ==
  LET prices == {-500, 0, 1, 1000, 1500, 2990}
      dates == {Date("absent", 0)} \cup
                 {Date("date", Today + d * Day + s) : d \in -1..MaxDays, s \in {-1, 0, 1}}
      stocked == {[PageProduct EXCEPT !.category = c, !.quantity = q, !.isActive = a] :
                    c \in CategoryEnum \cup {"Doce"}, q \in 0..MaxQuantity, a \in BOOLEAN}
  IN {<<[PageProduct EXCEPT !.costPrice = c, !.sellingPrice = s]>> : c, s \in prices}
       \cup {<<[PageProduct EXCEPT !.expirationDate = d]>> : d \in dates}
       \cup {<<>>} \cup {<<p>> : p \in stocked} \cup {<<p, q>> : p, q \in stocked}

InitMetrics ==
  /\ ImportIdle
  /\ products = <<>>
  /\ request = Idle.request
  /\ reply = Idle.reply
  /\ page \in [listing : Listings, today : {Today}]
  /\ output = Idle.output
  /\ accounts = Idle.accounts
  /\ session = Idle.session
  /\ location = Idle.location
  /\ inflight = Idle.inflight
  /\ dialog = Idle.dialog

\* the product page renders the margin column of its first product
MarginColumn ==
  /\ page.listing # <<>>
  /\ output' = [Idle.output EXCEPT
                  !.fn = "calculateProfitMarginPercentage",
                  !.number = calculateProfitMarginPercentage(
                               page.listing[1].costPrice, page.listing[1].sellingPrice)]
  /\ UNCHANGED <<vars, request, reply, page, accounts, session, location, inflight, dialog>>

\* the product page computes the market suggestion of its first product
MarketSuggestion ==
  /\ page.listing # <<>>
  /\ output' = [Idle.output EXCEPT !.fn = "calculateMarketSuggestions",
                                !.number = currentMargin(page.listing[1])]
  /\ UNCHANGED <<vars, request, reply, page, accounts, session, location, inflight, dialog>>

\* the export computes the margin cell of the first product
ExportMargin ==
  /\ page.listing # <<>>
  /\ output' = [Idle.output EXCEPT
                  !.fn = "export",
                  !.number = LET cell == ExportRow(page.listing[1]).marginPercentage
                             IN Quotient(cell.num, cell.den)]
  /\ UNCHANGED <<vars, request, reply, page, accounts, session, location, inflight, dialog>>

\* the stock page computes the discount of its first product
SuggestedDiscount ==
  /\ page.listing # <<>>
  /\ output' = [Idle.output EXCEPT
                  !.fn = "calculateSuggestedDiscount",
                  !.value = calculateSuggestedDiscount(
                              page.listing[1].expirationDate, page.today)]
  /\ UNCHANGED <<vars, request, reply, page, accounts, session, location, inflight, dialog>>

\* the stock page flags its first product: near expiration, expired
StockPageFlags ==
  /\ page.listing # <<>>
  /\ output' = [Idle.output EXCEPT
                  !.fn = "stock page",
                  !.flags = <<isNearExpiration(page.listing[1].expirationDate, page.today),
                              isExpired(page.listing[1].expirationDate, page.today)>>]
  /\ UNCHANGED <<vars, request, reply, page, accounts, session, location, inflight, dialog>>

\* the product page flags its first product: near expiration, expired
ProductPageFlags ==
  /\ page.listing # <<>>
  /\ output' = [Idle.output EXCEPT
                  !.fn = "product page",
                  !.flags = <<isNearExpirationProductPage(
                                page.listing[1].expirationDate, page.today),
                              isExpiredProductPage(
                                page.listing[1].expirationDate, page.today)>>]
  /\ UNCHANGED <<vars, request, reply, page, accounts, session, location, inflight, dialog>>

\* part_002 lines 121-161: the summary of the stock page
StockSummary ==
  /\ output' = [Idle.output EXCEPT !.fn = "stockSummary",
                                !.value = lowStockCount(page.listing)]
  /\ UNCHANGED <<vars, request, reply, page, accounts, session, location, inflight, dialog>>

\* part_002 lines 337-339: the rows of the table of the stock page
StockTable ==
  /\ output' = [Idle.output EXCEPT !.fn = "table", !.flags = isLowStock(page.listing)]
  /\ UNCHANGED <<vars, request, reply, page, accounts, session, location, inflight, dialog>>

NextMetrics ==
  \/ MarginColumn
  \/ MarketSuggestion
  \/ ExportMargin
  \/ SuggestedDiscount
  \/ StockPageFlags
  \/ ProductPageFlags
  \/ StockSummary
  \/ StockTable

SpecMetrics == InitMetrics /\ [][NextMetrics]_allVars

(***************************************************************************)
(* The browser session.  The server keeps the accounts; the browser keeps  *)
(* the logged-in user and the path of the address bar.  The router of      *)
(* frontend/src/routes/index.tsx decides, from the user and the path, the  *)
(* path the browser ends on and the page rendered there.  A password is    *)
(* compared as bcrypt compares it with the hash of the stored one.         *)
(***************************************************************************)
Paths == {"/", "/login", "/change-password", "/users", "/products", "/estoque"}

Usernames == {"admin", "ana", "maria", "ghost"}

Passwords == {"", "admin", "segredo", "outra123"}

Length == ("" :> 0) @@ ("admin" :> 5) @@ ("segredo" :> 7) @@ ("outra123" :> 8)

\* the account the server creates when there is none
SeedAdmin ==
  [password |-> "admin", role |-> "admin", isFirstAccess |-> TRUE, isActive |-> TRUE]

\* the user of the AuthContext after logout(), as before login()
LoggedOut == Idle.session

Rendered(path, element) == [path |-> path, element |-> element]

\* the router without the branch of the first access
AppRoutesNoFirstAccess(user, path) ==
  IF user = LoggedOut
  THEN Rendered("/login", "Login")
  ELSE IF path = "/" THEN Rendered("/", "ProductManagement")
  ELSE IF user.role = "admin" /\ path = "/users"
       THEN Rendered("/users", "UserManagement")
  ELSE IF user.role = "admin" /\ path = "/products"
       THEN Rendered("/products", "ProductManagement")
  ELSE Rendered("/", "ProductManagement")

\* the router with /users registered for every role
AppRoutesUsersForAll(user, path) ==
  IF user = LoggedOut
  THEN Rendered("/login", "Login")
  ELSE IF user.isFirstAccess
  THEN Rendered("/change-password", "ChangePassword")
  ELSE IF path = "/" THEN Rendered("/", "ProductManagement")
  ELSE IF path = "/users"
       THEN Rendered("/users", "UserManagement")
  ELSE IF user.role = "admin" /\ path = "/products"
       THEN Rendered("/products", "ProductManagement")
  ELSE Rendered("/", "ProductManagement")

\* where the browser ends and what it renders when it is sent to a path
AppRoutes(user, path) ==
  IF user = LoggedOut
  THEN IF path = "/login"
       THEN Rendered("/login", "Login")
       ELSE Rendered("/login", "Login")                    \* Navigate to /login
  ELSE IF user.isFirstAccess
  THEN IF path = "/change-password"
       THEN Rendered("/change-password", "ChangePassword")
       ELSE Rendered("/change-password", "ChangePassword") \* Navigate
  ELSE IF path = "/" THEN Rendered("/", "ProductManagement")
  ELSE IF user.role = "admin" /\ path = "/users"
       THEN Rendered("/users", "UserManagement")
  ELSE IF user.role = "admin" /\ path = "/products"
       THEN Rendered("/products", "ProductManagement")
  ELSE Rendered("/", "ProductManagement")                  \* Navigate to /

\* the page on the screen
Element == AppRoutes(session, location).element

\* the links of the drawer
DrawerLinks(user) ==
  {"/products", "/estoque"} \cup (IF user.role = "admin" THEN {"/users"} ELSE {})

\* a request body without a password: bcrypt.compare throws on it
NoPassword == "undefined"

\* POST /login with a message of its own for a deactivated user
LoginAnswerRevealing(username, password) ==
  IF username \notin DOMAIN accounts
  THEN RouteError("login", 401, "Credenciais invalidas")
  ELSE IF ~accounts[username].isActive
  THEN RouteError("login", 401, "Usuario inativo")
  ELSE IF password = NoPassword
  THEN RouteError("login", 400, "Illegal arguments")
  ELSE IF accounts[username].password # password
  THEN RouteError("login", 401, "Credenciais invalidas")
  ELSE RouteJson("login", 200,
                 <<[name |-> username,
                    role |-> accounts[username].role,
                    isFirstAccess |-> accounts[username].isFirstAccess]>>)

\* POST /login
LoginAnswer(username, password) ==
  IF username \notin DOMAIN accounts \/ ~accounts[username].isActive
  THEN RouteError("login", 401, "Credenciais invalidas")
  ELSE IF password = NoPassword
  THEN RouteError("login", 400, "Illegal arguments")
  ELSE IF accounts[username].password # password
  THEN RouteError("login", 401, "Credenciais invalidas")
  ELSE RouteJson("login", 200,
                 <<[name |-> username,
                    role |-> accounts[username].role,
                    isFirstAccess |-> accounts[username].isFirstAccess]>>)

\* POST /change-password without the comparison of the current password
ChangePasswordAnswerUnchecked(name, currentPassword, newPassword) ==
  [reply |-> RouteJson("change-password", 200, <<>>),
   accounts |-> [accounts EXCEPT ![name].password = newPassword,
                                 ![name].isFirstAccess = FALSE]]

\* POST /change-password of the user of the token
ChangePasswordAnswer(name, currentPassword, newPassword) ==
  IF accounts[name].password # currentPassword
  THEN [reply |-> RouteError("change-password", 400, "Senha atual incorreta"),
        accounts |-> accounts]
  ELSE [reply |-> RouteJson("change-password", 200, <<>>),
        accounts |-> [accounts EXCEPT ![name].password = newPassword,
                                      ![name].isFirstAccess = FALSE]]

\* the form of the password page
validationSchema(values) ==
  /\ values.currentPassword # ""
  /\ Length[values.newPassword] >= 6
  /\ values.confirmPassword = values.newPassword

InitRoutes ==
  /\ ImportIdle
  /\ products = <<>>
  /\ request = Idle.request
  /\ reply = Idle.reply
  /\ page = Idle.page
  /\ output = Idle.output
  /\ \E isFirstAccess \in BOOLEAN, isActive \in BOOLEAN :
       accounts = ("admin" :> SeedAdmin)
                  @@ ("ana" :> [password |-> "outra123", role |-> "admin",
                                isFirstAccess |-> ~isFirstAccess,
                                isActive |-> TRUE])
                  @@ ("maria" :> [password |-> "segredo", role |-> "user",
                                  isFirstAccess |-> isFirstAccess,
                                  isActive |-> isActive])
  /\ session = LoggedOut
  /\ location = "/login"
  /\ inflight = Idle.inflight
  /\ dialog = Idle.dialog

\* the login page submits its form
LoginSubmit ==
  /\ Element = "Login"
  /\ \E username \in Usernames, password \in Passwords :
       LET response == LoginAnswer(username, password)
       IN /\ request' = [route |-> "login", token |-> username]
          /\ reply' = response
          /\ IF response.status = 200
             THEN /\ session' = response.body[1]
                  /\ location' = AppRoutes(response.body[1],
                                           IF response.body[1].isFirstAccess
                                           THEN "/change-password" ELSE "/").path
             ELSE UNCHANGED <<session, location>>
  /\ UNCHANGED <<vars, page, output, accounts, inflight, dialog>>

\* the password page submits its form
ChangePasswordSubmit ==
  /\ Element = "ChangePassword"
  /\ \E values \in [currentPassword : Passwords, newPassword : Passwords,
                    confirmPassword : Passwords] :
       /\ validationSchema(values)
       /\ LET response == ChangePasswordAnswer(session.name, values.currentPassword,
                                               values.newPassword)
          IN /\ reply' = response.reply
             /\ accounts' = response.accounts
             /\ IF response.reply.status = 200
                THEN /\ session' = LoggedOut
                     /\ location' = AppRoutes(LoggedOut, "/login").path
                ELSE UNCHANGED <<session, location>>
  /\ UNCHANGED <<vars, request, page, output, inflight, dialog>>

\* the user types a path in the address bar
Navigate ==
  /\ \E path \in Paths :
       /\ request' = [route |-> path, token |-> session.name]
       /\ location' = AppRoutes(session, path).path
  /\ UNCHANGED <<vars, reply, page, output, accounts, session, inflight, dialog>>

\* the user follows a link of the drawer
DrawerLink ==
  /\ Element \in {"ProductManagement", "UserManagement"}
  /\ \E to \in DrawerLinks(session) :
       /\ request' = [route |-> to, token |-> session.name]
       /\ location' = AppRoutes(session, to).path
  /\ UNCHANGED <<vars, reply, page, output, accounts, session, inflight, dialog>>

\* the user presses the button of the bar
Logout ==
  /\ Element \in {"ProductManagement", "UserManagement"}
  /\ session' = LoggedOut
  /\ location' = AppRoutes(LoggedOut, location).path
  /\ UNCHANGED <<vars, request, reply, page, output, accounts, inflight, dialog>>

NextRoutes ==
  \/ LoginSubmit
  \/ ChangePasswordSubmit
  \/ Navigate
  \/ DrawerLink
  \/ Logout

SpecRoutes == InitRoutes /\ [][NextRoutes]_allVars

(***************************************************************************)
(* PATCH /:id/toggle-status, products.js lines 287-305, as the server runs *)
(* several requests at once: each request reads the product (findById),    *)
(* and later writes it (save).  save() sends the paths the handler         *)
(* assigned.  A product is addressed by its position in the collection.    *)
(***************************************************************************)
MaxRequests == 2

Requests == 1..MaxRequests

\* the collection before the requests
ToggleStore ==
  <<SeedProduct, [SeedProduct EXCEPT !.name = "Bife", !.isActive = TRUE]>>

\* a request that has not reached the handler
Waiting == [pc |-> "waiting", id |-> 0, status |-> 0, isActive |-> FALSE]

InitToggle ==
  /\ ImportIdle
  /\ \E n \in 1..Len(ToggleStore) : products = SubSeq(ToggleStore, 1, n)
  /\ request = Idle.request
  /\ reply = Idle.reply
  /\ page = Idle.page
  /\ output = Idle.output
  /\ accounts = Idle.accounts
  /\ session = Idle.session
  /\ location = Idle.location
  /\ inflight = [r \in Requests |-> Waiting]
  /\ dialog = Idle.dialog

\* lines 289-293: findById; 404 when there is no such product
ToggleFindById(r) ==
  /\ inflight[r].pc = "waiting"
  /\ \E id \in 1..(Len(products) + 1), storeFails \in BOOLEAN :
       inflight' = [inflight EXCEPT ![r] =
         IF storeFails
           THEN [pc |-> "done", id |-> id, status |-> 500, isActive |-> FALSE]
         ELSE IF id > Len(products)
           THEN [pc |-> "done", id |-> id, status |-> 404, isActive |-> FALSE]
         ELSE [pc |-> "found", id |-> id, status |-> 0,
               isActive |-> products[id].isActive]]
  /\ UNCHANGED <<vars, request, reply, page, output, accounts, session, location,
                 dialog>>

\* lines 295-300: the handler negates the isActive it read, saves and answers
ToggleSave(r) ==
  /\ inflight[r].pc = "found"
  /\ \E storeFails \in BOOLEAN :
       IF storeFails
         THEN /\ inflight' = [inflight EXCEPT ![r].pc = "done", ![r].status = 500]
              /\ UNCHANGED products
         ELSE /\ inflight' = [inflight EXCEPT ![r].pc = "done", ![r].status = 200,
                                              ![r].isActive = ~inflight[r].isActive]
              /\ products' = [products EXCEPT
                                ![inflight[r].id].isActive = ~inflight[r].isActive]
  /\ UNCHANGED <<upload, fileOnDisk, locals, insertCalls, error, responses>>
  /\ UNCHANGED <<pc, request, reply, page, output, accounts, session, location,
                 dialog>>

NextToggle ==
  \/ \E r \in Requests : ToggleFindById(r)
  \/ \E r \in Requests : ToggleSave(r)

SpecToggle == InitToggle /\ [][NextToggle]_allVars

(***************************************************************************)
(* The promotion dialog of the stock page, unnamed/part_002 lines 116-221  *)
(* and 540-576.  Prices are in hundredths, a discount is in hundredths of  *)
(* a percent, and the promotional price, the product of the two, is in     *)
(* millionths.                                                             *)
(***************************************************************************)
MaxDiscountInput == 95

\* the products of the stock page
PromoListing ==
  <<[PageProduct EXCEPT !.expirationDate = Date("date", Today - Day)],
    [PageProduct EXCEPT !.sellingPrice = 1000,
                        !.expirationDate = Date("date", Today + 5 * Day)],
    [PageProduct EXCEPT !.sellingPrice = 2000]>>

\* what the user types in the field of the discount, and of the price
DiscountInputs == {NaN} \cup {Number(percent * 100) : percent \in -1..MaxDiscountInput}

PriceInputs == {NaN} \cup {Number(v) : v \in {-100, 0, 1, 500, 1000, 2990, 5000}}

\* sellingPrice * (1 - discount / 100)
PromoPrice(sellingPrice, discount) == sellingPrice * (10000 - discount)

\* lines 116-119: the state of the component
PromoClosed ==
  [page |-> "stock", event |-> "none", promoDialogOpen |-> FALSE,
   selectedProduct |-> <<>>, discountPercentage |-> 0, promoPrice |-> 0]

InitPromo ==
  /\ ImportIdle
  /\ products = <<>>
  /\ request = Idle.request
  /\ reply = Idle.reply
  /\ page = [listing |-> PromoListing, today |-> Today]
  /\ output = Idle.output
  /\ accounts = Idle.accounts
  /\ session = Idle.session
  /\ location = Idle.location
  /\ inflight = Idle.inflight
  /\ dialog = PromoClosed

\* lines 177-183
handleOpenPromoDialog ==
  /\ ~dialog.promoDialogOpen
  /\ \E i \in DOMAIN page.listing :
       LET product == page.listing[i]
           suggestedDiscount ==
             100 * calculateSuggestedDiscount(product.expirationDate, page.today)
       IN dialog' = [dialog EXCEPT
                       !.event = "handleOpenPromoDialog",
                       !.selectedProduct = <<product>>,
                       !.discountPercentage = suggestedDiscount,
                       !.promoPrice = PromoPrice(product.sellingPrice, suggestedDiscount),
                       !.promoDialogOpen = TRUE]
  /\ UNCHANGED <<vars, request, reply, page, output, accounts, session, location,
                 inflight>>

\* lines 186-192
handleDiscountChange ==
  /\ dialog.promoDialogOpen
  /\ \E value \in DiscountInputs :
       IF dialog.selectedProduct = <<>> THEN UNCHANGED dialog
       ELSE LET entered == OrZero(value)
                atMost90 == IF entered < 9000 THEN entered ELSE 9000
                newDiscount == IF atMost90 > 0 THEN atMost90 ELSE 0
            IN dialog' = [dialog EXCEPT
                            !.event = "handleDiscountChange",
                            !.discountPercentage = newDiscount,
                            !.promoPrice =
                              PromoPrice(dialog.selectedProduct[1].sellingPrice,
                                         newDiscount)]
  /\ UNCHANGED <<vars, request, reply, page, output, accounts, session, location,
                 inflight>>

\* lines 195-207; Math.round(x * 100) / 100 is the nearest hundredth
handlePriceChange ==
  /\ dialog.promoDialogOpen
  /\ \E value \in PriceInputs :
       IF dialog.selectedProduct = <<>> THEN UNCHANGED dialog
       ELSE LET entered == OrZero(value)
                newPrice == IF entered > 0 THEN entered ELSE 0
                sellingPrice == dialog.selectedProduct[1].sellingPrice
            IN dialog' = [dialog EXCEPT
                            !.event = "handlePriceChange",
                            !.promoPrice = newPrice * 10000,
                            !.discountPercentage =
                              IF newPrice < sellingPrice
                              THEN (2 * (sellingPrice - newPrice) * 10000 + sellingPrice)
                                     \div (2 * sellingPrice)
                              ELSE 0]
  /\ UNCHANGED <<vars, request, reply, page, output, accounts, session, location,
                 inflight>>

\* lines 210-221
handleApplyPromotion ==
  /\ dialog.promoDialogOpen
  /\ dialog' = [dialog EXCEPT !.event = "handleApplyPromotion",
                              !.promoDialogOpen = FALSE,
                              !.selectedProduct = <<>>]
  /\ UNCHANGED <<vars, request, reply, page, output, accounts, session, location,
                 inflight>>

\* lines 587-589: Cancelar
CancelPromotion ==
  /\ dialog.promoDialogOpen
  /\ dialog' = [dialog EXCEPT !.event = "Cancelar", !.promoDialogOpen = FALSE]
  /\ UNCHANGED <<vars, request, reply, page, output, accounts, session, location,
                 inflight>>

NextPromo ==
  \/ handleOpenPromoDialog
  \/ handleDiscountChange
  \/ handlePriceChange
  \/ handleApplyPromotion
  \/ CancelPromotion

SpecPromo == InitPromo /\ [][NextPromo]_allVars

(***************************************************************************)
(* The dialogs of the product page, frontend/src/pages/ProductManagement.  *)
(* tsx: the menu of a row, the dialog that shows a product with the price  *)
(* the simulated service suggests for it, and the dialog of the form.      *)
(* fetchAiPriceSuggestion answers from a timer of 1.5 s that nothing       *)
(* cancels; the timers all wait the same time, so they fire in the order   *)
(* in which they were started.  A margin is in hundredths of a percent, a  *)
(* price of the form is a quotient of hundredths.  The suggestion keeps,   *)
(* in `product`, the name of the product it was computed from, and the     *)
(* form keeps, in `changed`, the fields the user typed in: the code has    *)
(* neither, they record the history the properties speak of.               *)
(***************************************************************************)
\* most timers waiting at a time
MaxTimers == 2

\* the products of the page
ProductListing ==
  <<PageProduct,
    [PageProduct EXCEPT !.name = "Bife Acebolado", !.description = "patinho",
                        !.category = "Carne", !.weight = Text("500g"),
                        !.quantity = 3, !.costPrice = 2000,
                        !.sellingPrice = 3490, !.ifoodPrice = 3890,
                        !.expirationDate = Date("date", Today + 5 * Day)]>>

\* lines 690-700
initialValues ==
  [name |-> "", description |-> "", category |-> "Frango", costPrice |-> 0,
   sellingPrice |-> Ratio(0, 1), ifoodPrice |-> Ratio(0, 1), quantity |-> 0,
   weight |-> Text(""), expirationDate |-> Date("date", Today)]

\* lines 414-424
productValidationSchema(values) ==
  /\ values.name # ""
  /\ values.description # ""
  /\ values.category \in {"Frango", "Carne", "Peixe", "Vegetariano"}
  /\ values.costPrice >= 0
  /\ values.sellingPrice.num >= 0
  /\ values.ifoodPrice.num >= 0
  /\ values.quantity >= 0
  /\ values.weight.s # ""
  /\ ~values.expirationDate.absent

\* lines 439-475 and 485: suggestedMargin.toFixed(2) of calculateMarketSuggestions,
\* for the weights of the listing
suggestedMargin(product) ==
  LET categoryMultiplier ==
        CASE product.category = "Frango" -> 10
          [] product.category = "Carne" -> 12
          [] product.category = "Peixe" -> 13
          [] product.category = "Vegetariano" -> 11
          [] OTHER -> 10
      weightValue ==
        CASE product.weight.s = "300g" -> 300
          [] product.weight.s = "500g" -> 500
          [] OTHER -> 300
      weightMultiplier ==
        IF weightValue <= 250 THEN 90
        ELSE IF weightValue <= 350 THEN 100
        ELSE IF weightValue <= 450 THEN 115
        ELSE IF weightValue <= 1000 THEN 130
        ELSE 100
  IN (45 * categoryMultiplier * weightMultiplier + 5) \div 10

\* lines 969-991 and 1060-1070: the result of the timer started for a product,
\* under the market factors Math.random draws
AIMarketSuggestion(product, highSeason, growingDemand, highCompetition, risingCost) ==
  LET adjustedMargin ==
        suggestedMargin(product)
        + (IF highSeason THEN 300 ELSE 0)
        + (IF growingDemand THEN 200 ELSE 0)
        - (IF highCompetition THEN 300 ELSE 0)
        - (IF risingCost THEN 150 ELSE 0)
  IN [product |-> product.name,
      suggestedMargin |-> adjustedMargin,
      suggestedPrice |-> Ratio(product.costPrice * (10000 + adjustedMargin), 10000)]

\* lines 552-553 and 567-579: the state of the component
ProductPageClosed ==
  [page |-> "products", anchorEl |-> FALSE,
   selectedProduct |-> <<>>, isViewDialogOpen |-> FALSE, viewingProduct |-> <<>>,
   aiSuggestion |-> <<>>, isAiLoading |-> FALSE, timers |-> <<>>,
   isDialogOpen |-> FALSE, editingProduct |-> <<>>, values |-> initialValues,
   changed |-> {}]

InitProductPage ==
  /\ ImportIdle
  /\ products = <<>>
  /\ request = Idle.request
  /\ reply = Idle.reply
  /\ page = [listing |-> ProductListing, today |-> Today]
  /\ output = Idle.output
  /\ accounts = Idle.accounts
  /\ session = Idle.session
  /\ location = Idle.location
  /\ inflight = Idle.inflight
  /\ dialog = ProductPageClosed

\* a dialog covers the table
DialogOpen == dialog.isViewDialogOpen \/ dialog.isDialogOpen

\* lines 891-894: the button of a row
handleActionsClick ==
  /\ ~DialogOpen
  /\ ~dialog.anchorEl
  /\ \E i \in DOMAIN page.listing :
       dialog' = [dialog EXCEPT !.anchorEl = TRUE,
                                !.selectedProduct = <<page.listing[i]>>]
  /\ UNCHANGED <<vars, request, reply, page, output, accounts, session, location,
                 inflight>>

\* lines 896-898: the menu is dismissed
handleActionsClose ==
  /\ dialog.anchorEl
  /\ dialog' = [dialog EXCEPT !.anchorEl = FALSE]
  /\ UNCHANGED <<vars, request, reply, page, output, accounts, session, location,
                 inflight>>

\* lines 900-909, with lines 963-967 of fetchAiPriceSuggestion
handleViewProduct ==
  /\ dialog.anchorEl
  /\ Len(dialog.timers) < MaxTimers
  /\ dialog' =
       IF dialog.selectedProduct # <<>>
       THEN [dialog EXCEPT !.viewingProduct = dialog.selectedProduct,
                           !.isViewDialogOpen = TRUE,
                           !.isAiLoading = TRUE,
                           !.timers = Append(dialog.timers, dialog.selectedProduct[1]),
                           !.anchorEl = FALSE]
       ELSE [dialog EXCEPT !.anchorEl = FALSE]
  /\ UNCHANGED <<vars, request, reply, page, output, accounts, session, location,
                 inflight>>

\* lines 967-1074: the callback of the timer
AiTimeout ==
  /\ dialog.timers # <<>>
  /\ \E highSeason \in BOOLEAN, growingDemand \in BOOLEAN,
        highCompetition \in BOOLEAN, risingCost \in BOOLEAN :
       dialog' = [dialog EXCEPT
                    !.timers = Tail(dialog.timers),
                    !.isAiLoading = FALSE,
                    !.aiSuggestion =
                      <<AIMarketSuggestion(Head(dialog.timers), highSeason,
                                           growingDemand, highCompetition,
                                           risingCost)>>]
  /\ UNCHANGED <<vars, request, reply, page, output, accounts, session, location,
                 inflight>>

\* lines 952-955
handleCloseViewDialog ==
  /\ dialog.isViewDialogOpen
  /\ dialog' = [dialog EXCEPT !.isViewDialogOpen = FALSE,
                              !.viewingProduct = <<>>]
  /\ UNCHANGED <<vars, request, reply, page, output, accounts, session, location,
                 inflight>>

\* lines 738-790: the dialog after handleEdit(product)
handleEdit(state, product) ==
  [state EXCEPT
     !.editingProduct = <<product>>,
     !.values = [name |-> product.name,
                 description |-> product.description,
                 category |-> product.category,
                 costPrice |-> product.costPrice,
                 sellingPrice |-> Ratio(product.sellingPrice, 1),
                 ifoodPrice |-> Ratio(product.ifoodPrice, 1),
                 quantity |-> product.quantity,
                 weight |-> product.weight,
                 expirationDate |-> IF product.expirationDate.absent
                                    THEN Date("date", page.today)
                                    ELSE product.expirationDate],
     !.changed = {},
     !.isDialogOpen = TRUE]

\* lines 911-916
handleEditProduct ==
  /\ dialog.anchorEl
  /\ dialog' =
       IF dialog.selectedProduct # <<>>
       THEN [handleEdit(dialog, dialog.selectedProduct[1]) EXCEPT
               !.anchorEl = FALSE]
       ELSE [dialog EXCEPT !.anchorEl = FALSE]
  /\ UNCHANGED <<vars, request, reply, page, output, accounts, session, location,
                 inflight>>

\* lines 1842-1857: the button 'Aplicar Preco Sugerido'
ApplySuggestedPrice ==
  /\ dialog.isViewDialogOpen
  /\ dialog.viewingProduct # <<>>
  /\ dialog.aiSuggestion # <<>>
  /\ LET suggestedPrice == dialog.aiSuggestion[1].suggestedPrice
     IN dialog' = [dialog EXCEPT
                     !.editingProduct = dialog.viewingProduct,
                     !.values = [dialog.values EXCEPT
                                   !.sellingPrice = suggestedPrice,
                                   !.ifoodPrice = Ratio(suggestedPrice.num * 11,
                                                        suggestedPrice.den * 10)],
                     !.isViewDialogOpen = FALSE,
                     !.viewingProduct = <<>>,
                     !.isDialogOpen = TRUE]
  /\ UNCHANGED <<vars, request, reply, page, output, accounts, session, location,
                 inflight>>

\* lines 1862-1873: the button 'Editar Produto' of the view dialog
EditViewedProduct ==
  /\ dialog.isViewDialogOpen
  /\ dialog' =
       LET closed == [dialog EXCEPT !.isViewDialogOpen = FALSE,
                                    !.viewingProduct = <<>>]
       IN IF dialog.viewingProduct # <<>>
          THEN handleEdit(closed, dialog.viewingProduct[1])
          ELSE closed
  /\ UNCHANGED <<vars, request, reply, page, output, accounts, session, location,
                 inflight>>

\* lines 1109-1115: the button 'Novo Produto'
OpenNewProduct ==
  /\ ~DialogOpen
  /\ ~dialog.anchorEl
  /\ dialog' = [dialog EXCEPT !.isDialogOpen = TRUE]
  /\ UNCHANGED <<vars, request, reply, page, output, accounts, session, location,
                 inflight>>

\* lines 1917-1919 and 1983-1984: the user types in the field of the name or of the
\* quantity
handleChange ==
  /\ dialog.isDialogOpen
  /\ \/ \E name \in {"", "Frango Light"} :
          dialog' = [dialog EXCEPT !.values.name = name,
                                   !.changed = @ \cup {"name"}]
     \/ \E quantity \in {7} :
          dialog' = [dialog EXCEPT !.values.quantity = quantity,
                                   !.changed = @ \cup {"quantity"}]
  /\ UNCHANGED <<vars, request, reply, page, output, accounts, session, location,
                 inflight>>

\* lines 792-796
handleCloseDialog ==
  /\ dialog.isDialogOpen
  /\ dialog' = [dialog EXCEPT !.isDialogOpen = FALSE,
                              !.editingProduct = <<>>,
                              !.values = initialValues,
                              !.changed = {}]
  /\ UNCHANGED <<vars, request, reply, page, output, accounts, session, location,
                 inflight>>

\* lines 701-735 with the callbacks of lines 621-647: the form is submitted; a
\* form the schema rejects sends nothing, and the server answers a request
\* with success or with an error
onSubmit ==
  /\ dialog.isDialogOpen
  /\ IF ~productValidationSchema(dialog.values)
     THEN /\ dialog' = dialog
          /\ UNCHANGED request
     ELSE /\ request' =
               [route |-> IF dialog.editingProduct # <<>>
                          THEN "updateProduct" ELSE "createProduct",
                token |-> IF dialog.editingProduct # <<>>
                          THEN dialog.editingProduct[1].name ELSE "",
                data |-> dialog.values]
          /\ \/ dialog' = [dialog EXCEPT !.isDialogOpen = FALSE,
                                         !.editingProduct = <<>>,
                                         !.values = initialValues,
                                         !.changed = {}]
             \/ dialog' = dialog
  /\ UNCHANGED <<vars, reply, page, output, accounts, session, location, inflight>>

NextProductPage ==
  \/ handleActionsClick
  \/ handleActionsClose
  \/ handleViewProduct
  \/ AiTimeout
  \/ handleCloseViewDialog
  \/ handleEditProduct
  \/ ApplySuggestedPrice
  \/ EditViewedProduct
  \/ OpenNewProduct
  \/ handleChange
  \/ handleCloseDialog
  \/ onSubmit

SpecProductPage == InitProductPage /\ [][NextProductPage]_allVars

(***************************************************************************)
(* Properties of the import.                                               *)
(***************************************************************************)
\* an eachRow step that hands a data row (any row but row 1) to the callback
DataRowStep == pc = "eachRow" /\ rowNumber' # rowNumber /\ rowNumber' > 1

\* the row that step hands over
StepRow == upload.worksheet[rowNumber']

NameMissing(row) == row.name.t = "null" \/ row.name.s = ""
CategoryMissing(row) == row.category.t = "null" \/ row.category.s = ""
PricesPositive(row) == RowCostPrice(row) > 0 /\ RowSellingPrice(row) > 0
CategoryKnown(row) == row.category.s \in {"Frango", "Carne", "Peixe", "Vegetariano"}

\* C1: a readable data row whose name is missing or empty, whose category is
\* missing or empty, or whose parsed costPrice or sellingPrice is <= 0 is
\* rejected with the message "Linha N: Dados invalidos ..." carrying its row
\* number, and is not added to productsToCreate.
C1_MissingDataRejected ==
  [][(/\ DataRowStep
      /\ ~StepRow.throws
      /\ \/ NameMissing(StepRow)
         \/ CategoryMissing(StepRow)
         \/ ~PricesPositive(StepRow))
     => /\ errors' = Append(errors, [linha |-> rowNumber', reason |-> MsgDados,
                                     category |-> "", use |-> <<>>])
        /\ productsToCreate' = productsToCreate
        /\ successCount' = successCount]_vars

\* C1 witness: a row with a name, a known category and a costPrice that parses
\* to a value <= 0 has just been rejected with the "Dados invalidos" message.
C1_Witness ==
  /\ pc = "eachRow"
  /\ rowNumber > 1
  /\ LET row == upload.worksheet[rowNumber]
     IN /\ ~row.throws
        /\ ~NameMissing(row)
        /\ CategoryKnown(row)
        /\ RowCostPrice(row) <= 0
        /\ RowSellingPrice(row) > 0
  /\ productsToCreate = <<>>
  /\ errors # <<>>
  /\ errors[Len(errors)].linha = rowNumber
  /\ errors[Len(errors)].reason = MsgDados

\* C2: a readable data row that passes the required-data check and whose
\* category is none of the four is rejected with the "Categoria invalida"
\* message naming the category, and not added; a row with an unknown category
\* and a non-positive price gets the "Dados invalidos" message; every rejected
\* row adds exactly one entry to errors.
C2_UnknownCategoryRejected ==
  [][DataRowStep =>
       /\ (/\ ~StepRow.throws
           /\ ~NameMissing(StepRow)
           /\ ~CategoryMissing(StepRow)
           /\ PricesPositive(StepRow)
           /\ ~CategoryKnown(StepRow))
          => /\ errors' = Append(errors, [linha |-> rowNumber', reason |-> MsgCategoria,
                                          category |-> StepRow.category.s,
                                          use |-> <<"Frango", "Carne", "Peixe", "Vegetariano">>])
             /\ productsToCreate' = productsToCreate
       /\ (/\ ~StepRow.throws
           /\ ~CategoryKnown(StepRow)
           /\ ~PricesPositive(StepRow))
          => /\ Len(errors') = Len(errors) + 1
             /\ errors'[Len(errors')].reason = MsgDados
       /\ \/ /\ productsToCreate' = productsToCreate
             /\ Len(errors') = Len(errors) + 1
             /\ SubSeq(errors', 1, Len(errors)) = errors
          \/ /\ Len(productsToCreate') = Len(productsToCreate) + 1
             /\ errors' = errors]_vars

\* C2 witness: a row with the unknown category "Doce" and valid name and
\* prices has just been rejected with the "Categoria invalida" message.
C2_Witness ==
  /\ pc = "eachRow"
  /\ rowNumber > 1
  /\ LET row == upload.worksheet[rowNumber]
     IN /\ ~row.throws
        /\ ~NameMissing(row)
        /\ row.category.s = "Doce"
        /\ PricesPositive(row)
  /\ errors # <<>>
  /\ errors[Len(errors)].linha = rowNumber
  /\ errors[Len(errors)].reason = MsgCategoria
  /\ errors[Len(errors)].category = "Doce"

DataRowsUpTo(upTo) ==
  {j \in 2..Len(upload.worksheet) : j <= upTo /\ ~upload.worksheet[j].empty}

\* C4: at every point of an import, rowCount = successCount + Len(errors);
\* rowCount counts exactly the rows with values visited so far other than
\* row 1, and every summary sent has total = success + Len(errors).
C4_TotalIsSuccessPlusErrors ==
  /\ rowCount = successCount + Len(errors)
  /\ successCount = Len(productsToCreate)
  /\ rowCount = Cardinality(DataRowsUpTo(rowNumber))
  /\ \A i \in 1..Len(errors) : errors[i].linha # 1
  /\ \A i \in 1..Len(responses) :
       responses[i].summary =>
         /\ responses[i].total = responses[i].success + Len(responses[i].errors)
         /\ responses[i].total = Cardinality(DataRowsUpTo(Len(upload.worksheet)))

\* C4 witness: a summary was sent for a worksheet whose row 1 would be
\* accepted as data, with an accepted and a rejected row after it.
C4_Witness ==
  /\ pc = "done"
  /\ Len(upload.worksheet) >= 3
  /\ Verdict(upload.worksheet[1]) = "accept"
  /\ ~upload.worksheet[1].empty
  /\ responses # <<>>
  /\ responses[1].summary
  /\ responses[1].total = 2
  /\ responses[1].success = 1
  /\ Len(responses[1].errors) = 1

\* C5: once a response to a request that uploaded a file has been sent, the
\* temporary file is gone.
C5_FileRemovedBeforeResponse ==
  (upload.file /\ responses # <<>>) => ~fileOnDisk

\* a row the validator is to accept
Acceptable(row) ==
  /\ ~row.throws
  /\ ~NameMissing(row)
  /\ CategoryKnown(row)
  /\ PricesPositive(row)

\* the candidates of the acceptable rows among rows 2..upTo, in row order
RECURSIVE AcceptedUpTo(_)
AcceptedUpTo(upTo) ==
  IF upTo < 2 THEN <<>>
  ELSE IF /\ upTo <= Len(upload.worksheet)
          /\ ~upload.worksheet[upTo].empty
          /\ Acceptable(upload.worksheet[upTo])
         THEN Append(AcceptedUpTo(upTo - 1), Candidate(upload.worksheet[upTo]))
         ELSE AcceptedUpTo(upTo - 1)

\* the rows among rows 2..upTo that have values and are not acceptable
RejectedUpTo(upTo) ==
  {j \in DataRowsUpTo(upTo) : ~Acceptable(upload.worksheet[j])}

LastRow == Len(upload.worksheet)

RowsDone == pc \in {"insertMany", "unlink", "catch", "done", "rejected"}

\* C6: every row visited so far that failed validation or threw has one entry
\* in errors carrying its row number, and the rows accepted so far are all in
\* productsToCreate, whatever was rejected before them; no response is sent
\* while rows remain; once the scan is over every row with values was
\* visited, and a summary reports every acceptable row of the worksheet as
\* imported, with their candidates at the end of the collection.
C6_RowIsolation ==
  upload.hasWorksheet =>
    /\ \A j \in RejectedUpTo(rowNumber) : \E i \in 1..Len(errors) : errors[i].linha = j
    /\ Len(errors) = Cardinality(RejectedUpTo(rowNumber))
    /\ productsToCreate = AcceptedUpTo(rowNumber)
    /\ pc = "eachRow" => responses = <<>>
    /\ RowsDone => DataRowsUpTo(rowNumber) = DataRowsUpTo(LastRow)
    /\ \A i \in 1..Len(responses) :
         responses[i].summary =>
           /\ responses[i].success = Len(AcceptedUpTo(LastRow))
           /\ Len(responses[i].errors) = Cardinality(RejectedUpTo(LastRow))
           /\ Len(products) >= Len(AcceptedUpTo(LastRow))
           /\ SubSeq(products, Len(products) - Len(AcceptedUpTo(LastRow)) + 1,
                     Len(products)) = AcceptedUpTo(LastRow)

\* C6 witness: row 2 threw, row 3 failed validation, row 4 was accepted, and
\* the summary reports one product imported and two errors.
C6_Witness ==
  /\ pc = "done"
  /\ LastRow = 4
  /\ upload.worksheet[2].throws
  /\ ~upload.worksheet[3].throws
  /\ ~upload.worksheet[3].empty
  /\ NameMissing(upload.worksheet[3])
  /\ Acceptable(upload.worksheet[4])
  /\ ~upload.worksheet[4].empty
  /\ responses # <<>>
  /\ responses[1].summary
  /\ responses[1].success = 1
  /\ Len(responses[1].errors) = 2
  /\ products # <<>>
  /\ products[Len(products)] = Candidate(upload.worksheet[4])

\* C7: insertMany is called at most once, only after every row with values
\* was visited, with exactly the candidates of the acceptable rows in row
\* order; it is called whenever there is one, and not at all when there is
\* none, in which case a summary reports success = 0.
C7_OneBulkInsert ==
  /\ Len(insertCalls) <= 1
  /\ insertCalls # <<>> =>
       /\ pc \in {"unlink", "catch", "done", "rejected"}
       /\ DataRowsUpTo(rowNumber) = DataRowsUpTo(LastRow)
       /\ insertCalls[1] = AcceptedUpTo(LastRow)
  /\ (pc = "unlink" /\ AcceptedUpTo(LastRow) # <<>>) => insertCalls # <<>>
  /\ AcceptedUpTo(LastRow) = <<>> =>
       /\ insertCalls = <<>>
       /\ \A i \in 1..Len(responses) :
            responses[i].summary => responses[i].success = 0

\* C7 witness: two rows were accepted, one insertMany call carried both in
\* row order, and the summary was sent.
C7_Witness ==
  /\ pc = "done"
  /\ Len(insertCalls) = 1
  /\ Len(insertCalls[1]) = 2
  /\ insertCalls[1][1] # insertCalls[1][2]
  /\ insertCalls[1] = AcceptedUpTo(LastRow)
  /\ responses # <<>>
  /\ responses[1].summary
  /\ responses[1].success = 2

\* C8: once insertMany has thrown, the collection stays as it was before the
\* call, every response sent is a 500 without a summary, and a handler that
\* finishes has sent exactly one.
C8_InsertFailureFailsImport ==
  [][error' = "insertMany" =>
       /\ products' = products
       /\ \A i \in 1..Len(responses') :
            /\ responses'[i].status = 500
            /\ ~responses'[i].summary
       /\ pc' = "done" => Len(responses') = 1]_vars

\* C8 witness: every row passed the validator and the schema, insertMany
\* failed, and the 500 response was sent.
C8_Witness ==
  /\ pc = "done"
  /\ error = "insertMany"
  /\ errors = <<>>
  /\ rowCount >= 2
  /\ successCount = rowCount
  /\ \A i \in 1..Len(productsToCreate) : SchemaValid(productsToCreate[i])
  /\ Len(responses) = 1
  /\ responses[1].status = 500

\* C9: the entries of errors are in increasing row order, each carries the
\* 1-based number of a row with values that was rejected, and a summary
\* carries the list as built.
C9_ErrorsInRowOrder ==
  /\ \A i, j \in 1..Len(errors) : i < j => errors[i].linha < errors[j].linha
  /\ \A i \in 1..Len(errors) : errors[i].linha \in RejectedUpTo(rowNumber)
  /\ \A i \in 1..Len(responses) :
       responses[i].summary => responses[i].errors = errors

\* C9 witness: a summary with two error entries, for rows 2 and 4.
C9_Witness ==
  /\ pc = "done"
  /\ responses # <<>>
  /\ responses[1].summary
  /\ Len(responses[1].errors) = 2
  /\ responses[1].errors[1].linha = 2
  /\ responses[1].errors[2].linha = 4

\* the upload fails at the file level: no file, no workbook, or no worksheet
FileLevelFailure == ~(upload.file /\ upload.readable /\ upload.hasWorksheet)

\* C10: on a file-level failure no row is read, the collection is not
\* changed and insertMany is not called; a request without a file is
\* answered 400; every response is an error without a summary, and a handler
\* that finishes has sent exactly one.
C10_FileLevelFailureAborts ==
  [][FileLevelFailure =>
       /\ products' = products
       /\ insertCalls' = <<>>
       /\ rowNumber' = 0
       /\ rowCount' = 0
       /\ Len(responses') <= 1
       /\ \A i \in 1..Len(responses') :
            /\ ~responses'[i].summary
            /\ responses'[i].status \in {400, 500}
            /\ ~upload.file => responses'[i].status = 400
       /\ pc' = "done" => Len(responses') = 1]_vars

\* C10 witness: the workbook could not be read and the single response is an
\* error, with the seeded collection unchanged.
C10_Witness ==
  /\ pc = "done"
  /\ upload.file
  /\ ~upload.readable
  /\ error = "readFile"
  /\ Len(responses) = 1
  /\ responses[1].status = 500
  /\ ~responses[1].summary
  /\ products = <<SeedProduct>>
  /\ insertCalls = <<>>

(***************************************************************************)
(* Properties of the export and of the product routes.                     *)
(***************************************************************************)
\* the last request was GET /export/excel and passed the auth middleware
Exported == request.route = "export" /\ reply.handler = "export"

\* the data rows of the exported worksheet
DataRows(sheet) == {i \in 1..Len(sheet) : ~sheet[i].header}

\* C11: an export of an empty collection answers 404 with the message
\* "Nao ha produtos cadastrados para exportar" and sends no worksheet, also
\* when it is the page that stops the export; an export of a collection that
\* is not empty sends a worksheet with one data row for each stored product,
\* in order, whether the product is active or not.
C11_ExportRowPerProduct ==
  /\ (Len(products) = 0 /\ reply.error = MsgNoProducts) => reply.sheet = <<>>
  /\ Exported =>
       /\ Len(products) = 0 => reply.sheet = <<>>
       /\ (Len(products) = 0 /\ reply.status # 500) =>
            reply.status = 404 /\ reply.error = MsgNoProducts
       /\ (Len(products) > 0 /\ reply.status # 500) =>
            /\ reply.status = 200
            /\ Len(reply.sheet) = Len(products) + 1
            /\ DataRows(reply.sheet) = 2..Len(reply.sheet)
            /\ \A i \in 1..Len(products) :
                 /\ reply.sheet[i + 1].name = products[i].name
                 /\ reply.sheet[i + 1].status = "Ativo" <=> products[i].isActive

\* an export of a collection holding an active and an inactive product
C11_Witness ==
  /\ Exported
  /\ reply.status = 200
  /\ \E i, j \in 1..Len(products) : products[i].isActive /\ ~products[j].isActive

\* C12: in every exported row the margin value is sellingPrice - costPrice,
\* the margin percentage is the fraction (sellingPrice - costPrice) /
\* costPrice when costPrice > 0 and 0 otherwise, and the status is "Ativo"
\* for an active product and "Inativo" for an inactive one.
C12_MarginColumns ==
  Exported =>
    \A i \in DataRows(reply.sheet) :
      LET row == reply.sheet[i]
      IN /\ row.marginValue = row.sellingPrice - row.costPrice
         /\ RatioEq(row.marginPercentage,
                    IF row.costPrice > 0
                      THEN Ratio(row.sellingPrice - row.costPrice, row.costPrice)
                      ELSE Ratio(0, 1))
         /\ row.status = (IF products[i - 1].isActive THEN "Ativo" ELSE "Inativo")

\* the eight core fields of a product
Core(product) ==
  <<product.name, product.description, product.category, product.weight,
    product.quantity, product.costPrice, product.sellingPrice,
    product.ifoodPrice>>

\* the import handler has read every row of a file the export had sent
Reimported ==
  request.route = "import" /\ upload.hasWorksheet /\ pc = "insertMany"

\* C13: when the exported worksheet is imported again, no row is rejected
\* and the candidates are, in order, the exported products with the same
\* name, description, category, weight, quantity, costPrice, sellingPrice and
\* ifoodPrice.
C13_RoundTrip ==
  Reimported =>
    /\ errors = <<>>
    /\ Len(productsToCreate) = Len(products)
    /\ \A i \in 1..Len(products) : Core(productsToCreate[i]) = Core(products[i])

(***************************************************************************)
(* Properties of the helpers of the pages.                                 *)
(***************************************************************************)
\* the first product of the page, the one the helpers were applied to
Shown == page.listing[1]

\* the time left to the expiration date of the product shown
TimeRemaining == Shown.expirationDate.time - page.today

\* C14: with a cost price of 0 the margin percentage is 0 and nothing is
\* divided by 0, in the margin column, in the export and in the market
\* suggestion alike; with a cost price above 0 the margin column shows
\* ((sellingPrice - costPrice) / costPrice) * 100, to two decimals.
C14_MarginGuardsZeroCost ==
  /\ output.fn \in {"calculateProfitMarginPercentage", "export",
                    "calculateMarketSuggestions"} =>
       /\ output.number.kind = "finite"
       /\ Shown.costPrice = 0 => output.number.num = 0
  /\ (output.fn = "calculateProfitMarginPercentage" /\ Shown.costPrice > 0) =>
       LET gap == output.number.num * Shown.costPrice
                      - (Shown.sellingPrice - Shown.costPrice) * 100 * output.number.den
       IN /\ 2 * gap <= Shown.costPrice
          /\ -2 * gap <= Shown.costPrice

\* the discount the tiers give for a time left to the expiration date
Tier(timeRemaining) ==
  CASE timeRemaining <= 0 -> 50
    [] timeRemaining > 0 /\ timeRemaining <= Day -> 40
    [] timeRemaining > Day /\ timeRemaining <= 7 * Day -> 25
    [] timeRemaining > 7 * Day /\ timeRemaining <= 30 * Day -> 15
    [] OTHER -> 10

\* C15: the suggested discount is 0 without an expiration date; with one it
\* is 50 when no time is left, 40 up to 1 day, 25 up to 7 days (so 25 at 5
\* days), 15 up to 30 days and 10 beyond, and no later expiration date
\* gives a larger discount.
C15_DiscountTiers ==
  output.fn = "calculateSuggestedDiscount" =>
    IF Shown.expirationDate.absent THEN output.value = 0
    ELSE /\ output.value = Tier(TimeRemaining)
         /\ TimeRemaining = 5 * Day => output.value = 25
         /\ \A later \in TimeRemaining..(TimeRemaining + 2 * Day) :
              calculateSuggestedDiscount(Date("date", page.today + later), page.today)
                <= output.value
         /\ \A d \in 0..MaxDays :
              d * Day >= TimeRemaining =>
                calculateSuggestedDiscount(Date("date", page.today + d * Day), page.today)
                  <= output.value

\* the discount of a product that expires in exactly 7 days
C15_Witness ==
  /\ output.fn = "calculateSuggestedDiscount"
  /\ ~Shown.expirationDate.absent
  /\ TimeRemaining = 7 * Day
  /\ output.value = 25

\* C16: a product is near expiration exactly when its expiration date is
\* later than now by at most 60 days, and expired exactly when the date is
\* before now; without a date it is neither; the helpers of the stock page
\* and those of the product page give the same two answers.
C16_ExpirationFlags ==
  output.fn \in {"stock page", "product page"} =>
    /\ output.flags[1] <=>
         (~Shown.expirationDate.absent /\ 0 < TimeRemaining /\ TimeRemaining <= 60 * Day)
    /\ output.flags[2] <=>
         (~Shown.expirationDate.absent /\ Shown.expirationDate.time < page.today)
    /\ output.flags =
         (IF output.fn = "stock page"
            THEN <<isNearExpirationProductPage(Shown.expirationDate, page.today),
                   isExpiredProductPage(Shown.expirationDate, page.today)>>
            ELSE <<isNearExpiration(Shown.expirationDate, page.today),
                   isExpired(Shown.expirationDate, page.today)>>)

\* the stock page flags a product that expires in exactly 60 days
C16_Witness ==
  /\ output.fn = "stock page"
  /\ ~Shown.expirationDate.absent
  /\ TimeRemaining = 60 * Day
  /\ output.flags = <<TRUE, FALSE>>

\* the active products of the page, in order
ActiveRows == SelectSeq(page.listing, LAMBDA product : product.isActive)

\* the ideal stock of the table of the claim
IdealStockTable(category) ==
  CASE category = "Frango" -> 20
    [] category = "Carne" -> 15
    [] category = "Peixe" -> 10
    [] category = "Vegetariano" -> 12
    [] OTHER -> 15

\* C17: the stock level of a product is (quantity / idealStock) * 100 with
\* the ideal stock 20 for Frango, 15 for Carne, 10 for Peixe, 12 for
\* Vegetariano and 15 for any other category; the level of a sum of two
\* quantities is the sum of their levels; the table flags an active product
\* low exactly when its level is below 40, and the summary counts exactly
\* the products the table flags.
C17_StockLevel ==
  /\ \A i \in 1..Len(page.listing) :
       LET product == page.listing[i]
           level == getStockLevel(product)
       IN /\ level.kind = "finite"
          /\ level.num * IdealStockTable(product.category)
               = product.quantity * 100 * level.den
          /\ \A j \in 1..Len(page.listing) :
               LET other == page.listing[j]
                   both == getStockLevel([product EXCEPT
                                            !.quantity = product.quantity + other.quantity])
                   part == getStockLevel([product EXCEPT !.quantity = other.quantity])
               IN both.num * level.den * part.den
                    = (level.num * part.den + part.num * level.den) * both.den
  /\ output.fn = "table" =>
       /\ Len(output.flags) = Len(ActiveRows)
       /\ \A i \in 1..Len(ActiveRows) :
            output.flags[i] <=>
              ActiveRows[i].quantity * 100 < 40 * IdealStockTable(ActiveRows[i].category)
  /\ output.fn = "stockSummary" =>
       output.value = Cardinality({i \in 1..Len(ActiveRows) : isLowStock(page.listing)[i]})

\* the summary counts one of two active products: the one at 7 of 20, not
\* the one at 8 of 20
C17_Witness ==
  /\ output.fn = "stockSummary"
  /\ output.value = 1
  /\ Len(page.listing) = 2
  /\ \A i \in 1..2 : page.listing[i].isActive /\ page.listing[i].category = "Frango"
  /\ page.listing[1].quantity = 7
  /\ page.listing[2].quantity = 8

\* C18: a request to a product route that carries a credential of a user,
\* admin or not, reaches the handler of its route; a request without one
\* reaches no handler, starts no import and leaves the collection as it is.
C18_AuthBeforeHandler ==
  [][Free =>
       /\ request'.token \in {"user", "admin"} => reply'.handler = request'.route
       /\ request'.token = "none" =>
            reply'.handler = "none" /\ products' = products /\ pc' = "idle"]_allVars

\* a user who is no admin has deleted a product
C18_Witness ==
  /\ request = [route |-> "delete", token |-> "user"]
  /\ reply.status = 200
  /\ reply.handler = "delete"

(***************************************************************************)
(* Properties of the browser session.                                      *)
(***************************************************************************)
LoggedIn == session # LoggedOut

\* the paths of the pages of the application
ApplicationPaths == {"/", "/users", "/products"}

\* a step in which the server accepts a change of password
PasswordChanged ==
  /\ LoggedIn
  /\ \/ accounts' # accounts
     \/ reply'.handler = "change-password" /\ reply'.status = 200

\* C19: while the logged-in user has isFirstAccess the browser is at
\* /change-password, whose page is rendered, and every path leads there; a
\* change of password the server accepts clears isFirstAccess of the account
\* and logs the user out at /login; isFirstAccess of an account never comes
\* back, a login of such an account lands on /, and while its user is logged
\* in the browser is on an application page and no path leads to
\* /change-password.
C19_FirstAccessPasswordChange ==
  /\ []((LoggedIn /\ session.isFirstAccess) =>
          /\ location = "/change-password"
          /\ Element = "ChangePassword"
          /\ \A path \in Paths : AppRoutes(session, path).path = "/change-password")
  /\ []((LoggedIn /\ ~accounts[session.name].isFirstAccess) =>
          /\ location \in ApplicationPaths
          /\ \A path \in Paths : AppRoutes(session, path).path \in ApplicationPaths)
  /\ [][/\ (PasswordChanged =>
              /\ ~accounts'[session.name].isFirstAccess
              /\ session' = LoggedOut
              /\ location' = "/login")
         /\ (\A name \in DOMAIN accounts :
               (~accounts[name].isFirstAccess) => ~accounts'[name].isFirstAccess)
         /\ ((~LoggedIn /\ session' # LoggedOut
                /\ ~accounts[session'.name].isFirstAccess) => location' = "/")
       ]_allVars

\* the seeded administrator changed the password, logged in again and is on
\* the page of the users
C19_Witness ==
  /\ session = [name |-> "admin", role |-> "admin", isFirstAccess |-> FALSE]
  /\ accounts["admin"].password # SeedAdmin.password
  /\ reply.handler = "login"
  /\ location = "/users"

\* C20 as stated: with no user every path leads to /login; the page of the
\* users is rendered only for an administrator; for any other user the path
\* /users leads to the product page at /.
C20_RoleRoutes ==
  /\ (~LoggedIn) =>
       /\ location = "/login"
       /\ \A path \in Paths : AppRoutes(session, path).path = "/login"
  /\ \A path \in Paths :
       (AppRoutes(session, path).element = "UserManagement") => session.role = "admin"
  /\ (LoggedIn /\ session.role # "admin") =>
       AppRoutes(session, "/users") = Rendered("/", "ProductManagement")

\* C20, amended: with no user every path leads to /login; the page of the
\* users is rendered, and linked in the drawer, only for an administrator;
\* for any other user the path /users leads to the product page at / once
\* the first access is over, and to /change-password before.
C20_RoleRoutesAfterFirstAccess ==
  /\ (~LoggedIn) =>
       /\ location = "/login"
       /\ \A path \in Paths : AppRoutes(session, path).path = "/login"
  /\ \A path \in Paths :
       (AppRoutes(session, path).element = "UserManagement") => session.role = "admin"
  /\ (location = "/users") => session.role = "admin"
  /\ (LoggedIn /\ "/users" \in DrawerLinks(session)) => session.role = "admin"
  /\ (LoggedIn /\ session.role # "admin") =>
       AppRoutes(session, "/users") =
         IF session.isFirstAccess
         THEN Rendered("/change-password", "ChangePassword")
         ELSE Rendered("/", "ProductManagement")
  /\ (LoggedIn /\ session.role # "admin" /\ request.route = "/users"
        /\ request.token = session.name) =>
       location = IF session.isFirstAccess THEN "/change-password" ELSE "/"

\* a user who is no administrator, past the first access, asked for /users
\* and is on the product page
C20_Witness ==
  /\ session = [name |-> "maria", role |-> "user", isFirstAccess |-> FALSE]
  /\ request = [route |-> "/users", token |-> "maria"]
  /\ location = "/"

(***************************************************************************)
(* Properties of the stored products.                                      *)
(***************************************************************************)
\* C21 as stated: every stored product has a name, a description, a
\* category of the enum, and a cost price and a selling price above 0.
C21_StoredProductsValid ==
  \A i \in 1..Len(products) :
    /\ products[i].name # ""
    /\ products[i].description # ""
    /\ products[i].category \in CategoryEnum
    /\ products[i].costPrice > 0
    /\ products[i].sellingPrice > 0

\* C22 as stated: every candidate the row validator accepted satisfies the
\* schema, so a bulk insert of accepted rows never fails on the schema.
C22_AcceptedRowsSatisfySchema ==
  \A i \in 1..Len(productsToCreate) : SchemaValid(productsToCreate[i])

\* a product of the uploaded file is in the collection
FileStored == \E i \in 1..Len(products) : products[i] # SeedProduct

\* C23 as stated: when the import answered 400 or 500, no product of the
\* file is in the collection.
C23_ErrorStatusStoresNothing ==
  \A i \in 1..Len(responses) :
    (responses[i].status \in {400, 500}) => ~FileStored

(***************************************************************************)
(* Properties of the auth routes.                                          *)
(***************************************************************************)
\* C25: for every account and every pair of passwords, change-password
\* answers 200, stores the new password and clears isFirstAccess when the
\* current password is the stored one, and answers 400 and leaves the
\* accounts alone otherwise; no other account is touched; a step changes the
\* accounts only with such a 200, and isFirstAccess never goes from false to
\* true.
C25_ChangePasswordOnlyOnMatch ==
  /\ [](\A name \in DOMAIN accounts, currentPassword \in Passwords,
           newPassword \in Passwords :
          LET response == ChangePasswordAnswer(name, currentPassword, newPassword)
          IN IF currentPassword = accounts[name].password
             THEN /\ response.reply.status = 200
                  /\ response.accounts =
                       [accounts EXCEPT ![name] =
                          [password |-> newPassword, role |-> accounts[name].role,
                           isFirstAccess |-> FALSE,
                           isActive |-> accounts[name].isActive]]
             ELSE /\ response.reply = RouteError("change-password", 400,
                                                 "Senha atual incorreta")
                  /\ response.accounts = accounts)
  /\ [][/\ (accounts' # accounts =>
              (reply'.handler = "change-password" /\ reply'.status = 200))
         /\ ((reply' # reply /\ reply'.handler = "change-password"
                /\ reply'.status = 400) => accounts' = accounts)
         /\ (\A name \in DOMAIN accounts :
               (~accounts[name].isFirstAccess) => ~accounts'[name].isFirstAccess)
       ]_allVars

\* a change with a wrong current password was answered 400 and the user is
\* still at the first access
C25_Witness ==
  /\ reply = RouteError("change-password", 400, "Senha atual incorreta")
  /\ LoggedIn
  /\ accounts[session.name].isFirstAccess
  /\ accounts[session.name].password = SeedAdmin.password

C29_ExpirationHelpersConsistent ==
  /\ (output.fn = "stock page") => ~(output.flags[1] /\ output.flags[2])
  /\ (output.fn = "calculateSuggestedDiscount" /\ ~Shown.expirationDate.absent) =>
       ((output.value = 50) <=> isExpired(Shown.expirationDate, page.today))

(***************************************************************************)
(* Properties of the toggle of the status.                                 *)
(***************************************************************************)
\* the requests that toggled product id and were answered 200
Toggled(id) ==
  {r \in Requests : inflight[r].pc = "done" /\ inflight[r].status = 200
                      /\ inflight[r].id = id}

\* C24 as stated: a toggle changes isActive and nothing else; when no
\* request is between its read and its write, a product toggled an even
\* number of times has the isActive it had and one toggled an odd number of
\* times the opposite; a request for a missing id is answered 404.
C24_ToggleTwiceRestores ==
  /\ \A id \in 1..Len(products) :
       /\ [products[id] EXCEPT !.isActive = TRUE] =
            [ToggleStore[id] EXCEPT !.isActive = TRUE]
       /\ (\A r \in Requests : ~(inflight[r].pc = "found" /\ inflight[r].id = id)) =>
            (products[id].isActive =
               IF Cardinality(Toggled(id)) % 2 = 0
               THEN ToggleStore[id].isActive ELSE ~ToggleStore[id].isActive)
  /\ \A r \in Requests :
       (inflight[r].status = 404) => inflight[r].id > Len(products)

(***************************************************************************)
(* Properties of the promotion dialog.                                     *)
(***************************************************************************)
\* C27 as stated: while a product is selected the discount is within
\* [0, 90] percent, the promotional price is within [0, sellingPrice] and
\* equals sellingPrice * (1 - discountPercentage / 100).
C27_PromoDialogInvariant ==
  (dialog.selectedProduct # <<>>) =>
    LET sellingPrice == dialog.selectedProduct[1].sellingPrice
    IN /\ 0 <= dialog.discountPercentage
       /\ dialog.discountPercentage <= 9000
       /\ 0 <= dialog.promoPrice
       /\ dialog.promoPrice <= sellingPrice * 10000
       /\ dialog.promoPrice = PromoPrice(sellingPrice, dialog.discountPercentage)


(***************************************************************************)
(* Properties of the dialogs of the product page.                          *)
(***************************************************************************)
\* C28: whenever the view dialog displays a suggestion (isAiLoading false and
\* aiSuggestion set), the suggestion was computed for the product being
\* viewed, also when the user closed the dialog and opened another product
\* before the timer of the first request fired.
C28_SuggestionForViewedProduct ==
  (/\ dialog.page = "products"
   /\ dialog.isViewDialogOpen
   /\ dialog.viewingProduct # <<>>
   /\ ~dialog.isAiLoading
   /\ dialog.aiSuggestion # <<>>)
  => dialog.aiSuggestion[1].product = dialog.viewingProduct[1].name

\* the fields of the form the user does not reach through a suggestion
EditedFields == {"name", "description", "category", "weight", "quantity", "costPrice"}

\* C30: whenever the form is open in edit mode, its name, description,
\* category, weight, quantity and cost price are those of the product being
\* edited, unless the user changed them in the form, whichever way the edit
\* mode was entered.
C30_EditFormMatchesProduct ==
  (/\ dialog.page = "products"
   /\ dialog.isDialogOpen
   /\ dialog.editingProduct # <<>>)
  => \A field \in EditedFields \ dialog.changed :
       dialog.values[field] = dialog.editingProduct[1][field]

=============================================================================
